---------------------------- MODULE Spec2Model ----------------------------
(***************************************************************************)
(* A model of filetool's append engine (src/filetool/filetool.py):         *)
(*   - the byte-level helpers: splitlines_bytes (buffer and stream form),  *)
(*     process_line, find_bytes_offset_in_stream, validate_args;           *)
(*   - the two lock layers: the named lock file keyed by the hash of the   *)
(*     canonical path, and the advisory flock on the target's inode;       *)
(*   - append_bytes_to_file / ensure_bytes_present / locked_file_handle,   *)
(*     one action per system call or library call of the code, run by      *)
(*     several operating-system processes.                                 *)
(*                                                                         *)
(* Bytes are their integer values (10 = LF, 13 = CR, 32 = SP, 35 = '#',    *)
(* 97 = 'a'), byte strings are sequences, offsets are 0-based as in        *)
(* Python.                                                                 *)
(***************************************************************************)
EXTENDS Integers, Sequences, FiniteSets, TLC

(***************************************************************************)
(* Bounds of the model.                                                    *)
(***************************************************************************)
\* number of concurrent operating-system processes
NProcs == 2
\* longest prior content of the target, in bytes, of the sequential runs
MaxContent == 2
\* failing system calls and terminating signals in one run
MaxFaults == 1
\* bytes returned by one read() of the target.  The code reads 8192 bytes
\* at a time (filetool.py:197, filetool.py:594); the model reads this many,
\* so that chunk boundaries fall inside the bounded contents.
ChunkSize == 2

(***************************************************************************)
(* Python's bytes operations.                                              *)
(***************************************************************************)
\* The value None, for line_ending and comment_marker: no byte string.
None == << -1 >>

Min(a, b) == IF a < b THEN a ELSE b

\* s[i:j] for 0 <= i, with j clipped to len(s)
Slice(s, i, j) == SubSeq(s, i + 1, Min(j, Len(s)))

\* s[i:]
SliceFrom(s, i) == SubSeq(s, i + 1, Len(s))

\* t occurs in s at offset i
OccursAt(s, t, i) == /\ i + Len(t) <= Len(s)
                     /\ SubSeq(s, i + 1, i + Len(t)) = t

\* s.find(t, start): the lowest offset >= start at which t occurs, or -1
find(s, t, start) ==
    LET hits == {i \in start..(Len(s) - Len(t)) : OccursAt(s, t, i)}
    IN  IF hits = {} THEN -1
        ELSE CHOOSE i \in hits : \A j \in hits : i <= j

\* t in s
contains(s, t) == find(s, t, 0) # -1

\* s.endswith(t)
endswith(s, t) == /\ Len(s) >= Len(t)
                  /\ SubSeq(s, Len(s) - Len(t) + 1, Len(s)) = t

\* strip_bytes = b" \t\n\r\x0b\x0c", the bytes lstrip()/rstrip() remove
strip_bytes == <<32, 9, 10, 13, 11, 12>>

IsSpace(b) == \E k \in 1..Len(strip_bytes) : strip_bytes[k] = b

\* s.lstrip()
lstrip(s) ==
    LET keep == {i \in 1..Len(s) : ~IsSpace(s[i])}
    IN  IF keep = {} THEN <<>>
        ELSE SubSeq(s, CHOOSE i \in keep : \A j \in keep : i <= j, Len(s))

\* s.rstrip()
rstrip(s) ==
    LET keep == {i \in 1..Len(s) : ~IsSpace(s[i])}
    IN  IF keep = {} THEN <<>>
        ELSE SubSeq(s, 1, CHOOSE i \in keep : \A j \in keep : i >= j)

\* line.rsplit(comment_marker, 1)[0]: the part before the last marker
rsplit0(s, t) ==
    IF contains(s, t)
    THEN Slice(s, 0, CHOOSE i \in 0..Len(s) :
                        /\ OccursAt(s, t, i)
                        /\ \A j \in (i + 1)..Len(s) : ~OccursAt(s, t, j))
    ELSE s

\* line.split(comment_marker)[0]: the part before the first marker
split0(s, t) == IF contains(s, t) THEN Slice(s, 0, find(s, t, 0)) ELSE s

(***************************************************************************)
(* splitlines_bytes                                                        *)
(***************************************************************************)
\* The checks without the last one, `delim in comment_marker`.
splitlines_bytes_error_without_containment(delim, comment_marker) ==
    \/ delim = None
    \/ Len(delim) = 0
    \/ /\ comment_marker # None
       /\ \/ Len(comment_marker) = 0
          \/ comment_marker = delim

\* The checks made before the first segment is produced: TRUE when
\* splitlines_bytes raises ValueError.
splitlines_bytes_error(delim, comment_marker) ==
    \/ delim = None
    \/ Len(delim) = 0
    \/ /\ comment_marker # None
       /\ \/ Len(comment_marker) = 0
          \/ comment_marker = delim
          \/ contains(comment_marker, delim)

\* A process_line that drops a line holding nothing but whitespace before
\* its comment marker, whether or not the line ends with the delimiter.
process_line_dropping_comment_only(line, delim, comment_marker, strip_leading, strip_trailing) ==
    LET re_add_delim == contains(strip_bytes, delim)
        has_comment == /\ comment_marker # None
                       /\ Len(comment_marker) > 0
                       /\ contains(line, comment_marker)
        l1 == IF has_comment
              THEN IF endswith(line, delim)
                   THEN split0(line, comment_marker) \o delim
                   ELSE split0(line, comment_marker)
              ELSE line
        l2 == IF strip_leading
              THEN IF endswith(line, delim)
                   THEN IF lstrip(l1) = <<>> THEN delim ELSE lstrip(l1)
                   ELSE lstrip(l1)
              ELSE l1
        l3 == IF strip_trailing
              THEN IF re_add_delim THEN rstrip(l2) \o delim ELSE rstrip(l2)
              ELSE l2
    IN  IF has_comment /\ lstrip(split0(line, comment_marker)) = <<>> THEN <<>>
        ELSE IF strip_trailing /\ l3 = <<>> THEN <<>>
        ELSE IF strip_leading /\ l3 = <<>> THEN <<>>
        ELSE IF has_comment /\ l3 = <<>> THEN <<>>
        ELSE <<l3>>

\* A process_line that drops every line of which stripping leaves only
\* the delimiter: no `_line += delim` after lstrip().
process_line_dropping_emptied(line, delim, comment_marker, strip_leading, strip_trailing) ==
    LET re_add_delim == contains(strip_bytes, delim)
        has_comment == /\ comment_marker # None
                       /\ Len(comment_marker) > 0
                       /\ contains(line, comment_marker)
        l1 == IF has_comment
              THEN IF endswith(line, delim)
                   THEN split0(line, comment_marker) \o delim
                   ELSE split0(line, comment_marker)
              ELSE line
        l2 == IF strip_leading THEN lstrip(l1) ELSE l1
        l3 == IF strip_trailing
              THEN IF re_add_delim THEN rstrip(l2) \o delim ELSE rstrip(l2)
              ELSE l2
    IN  IF strip_trailing /\ l3 = <<>> THEN <<>>
        ELSE IF strip_leading /\ (l3 = <<>> \/ l3 = delim) THEN <<>>
        ELSE IF has_comment /\ l3 = <<>> THEN <<>>
        ELSE <<l3>>

\* process_line: the segment yielded for one raw line, as a sequence of
\* zero (Python's None: the line is dropped) or one byte strings.
process_line(line, delim, comment_marker, strip_leading, strip_trailing) ==
    LET re_add_delim == contains(strip_bytes, delim)
        has_comment == /\ comment_marker # None
                       /\ Len(comment_marker) > 0
                       /\ contains(line, comment_marker)
        l1 == IF has_comment
              THEN IF endswith(line, delim)
                   THEN split0(line, comment_marker) \o delim
                   ELSE split0(line, comment_marker)
              ELSE line
        l2 == IF strip_leading
              THEN IF endswith(line, delim)
                   THEN IF Len(lstrip(l1)) = 0 THEN delim ELSE lstrip(l1)
                   ELSE lstrip(l1)
              ELSE l1
        l3 == IF strip_trailing
              THEN IF re_add_delim THEN rstrip(l2) \o delim ELSE rstrip(l2)
              ELSE l2
    IN  IF strip_trailing /\ l3 = <<>> THEN <<>>
        ELSE IF strip_leading /\ l3 = <<>> THEN <<>>
        ELSE IF has_comment /\ l3 = <<>> THEN <<>>
        ELSE <<l3>>

\* A split that cuts the delimiter off each line, as bytes.split does.
RECURSIVE split_bytes_from_dropping_delim(_, _, _, _, _, _)
split_bytes_from_dropping_delim(data, start, delim, cm, sl, st) ==
    LET idx == find(data, delim, start)
        end == idx + Len(delim)
    IN  IF idx = -1
        THEN IF start < Len(data)
             THEN process_line(SliceFrom(data, start), delim, cm, sl, st)
             ELSE <<>>
        ELSE process_line(Slice(data, start, idx), delim, cm, sl, st)
             \o split_bytes_from_dropping_delim(data, end, delim, cm, sl, st)

\* A split that processes what follows the last delimiter even when
\* nothing follows it: no `if start < len(data)`.
RECURSIVE split_bytes_from_trailing_empty(_, _, _, _, _, _)
split_bytes_from_trailing_empty(data, start, delim, cm, sl, st) ==
    LET idx == find(data, delim, start)
        end == idx + Len(delim)
    IN  IF idx = -1
        THEN process_line(SliceFrom(data, start), delim, cm, sl, st)
        ELSE process_line(Slice(data, start, end), delim, cm, sl, st)
             \o split_bytes_from_trailing_empty(data, end, delim, cm, sl, st)

\* The in-memory form (isinstance(data, bytes)): the segments of data from
\* offset start on.
RECURSIVE split_bytes_from(_, _, _, _, _, _)
split_bytes_from(data, start, delim, cm, sl, st) ==
    LET idx == find(data, delim, start)
        end == idx + Len(delim)
    IN  IF idx = -1
        THEN IF start < Len(data)
             THEN process_line(SliceFrom(data, start), delim, cm, sl, st)
             ELSE <<>>
        ELSE process_line(Slice(data, start, end), delim, cm, sl, st)
             \o split_bytes_from(data, end, delim, cm, sl, st)

\* The inner loop of the stream form: the segments cut from the buffer, and
\* the buffer that remains.
RECURSIVE drain_buffer(_, _, _, _, _)
drain_buffer(buffer, delim, cm, sl, st) ==
    LET idx == find(buffer, delim, 0)
        end == idx + Len(delim)
        rest == drain_buffer(SliceFrom(buffer, end), delim, cm, sl, st)
    IN  IF idx = -1
        THEN [segs |-> <<>>, buffer |-> buffer]
        ELSE [segs |-> process_line(Slice(buffer, 0, end), delim, cm, sl, st)
                         \o rest.segs,
              buffer |-> rest.buffer]

\* A stream form that splits each chunk on its own: what a chunk leaves
\* unterminated is yielded at once instead of being kept for the next.
RECURSIVE split_stream_from_chunkwise(_, _, _, _, _, _, _, _)
split_stream_from_chunkwise(data, pos, buffer, delim, cm, sl, st, chunk_size) ==
    LET chunk == Slice(data, pos, pos + chunk_size)
    IN  IF chunk = <<>> THEN <<>>
        ELSE split_bytes_from(chunk, 0, delim, cm, sl, st)
             \o split_stream_from_chunkwise(data, pos + Len(chunk), <<>>,
                                            delim, cm, sl, st, chunk_size)

\* The stream form: data.read(chunk_size) from offset pos until it returns
\* nothing, then the unterminated rest.
RECURSIVE split_stream_from(_, _, _, _, _, _, _, _)
split_stream_from(data, pos, buffer, delim, cm, sl, st, chunk_size) ==
    LET chunk == Slice(data, pos, pos + chunk_size)
        d == drain_buffer(buffer \o chunk, delim, cm, sl, st)
    IN  IF chunk = <<>>
        THEN IF buffer # <<>>
             THEN process_line(buffer, delim, cm, sl, st)
             ELSE <<>>
        ELSE d.segs \o split_stream_from(data, pos + Len(chunk), d.buffer,
                                         delim, cm, sl, st, chunk_size)

\* splitlines_bytes(data: bytes, ...), all segments
splitlines_bytes(data, delim, cm, sl, st) ==
    split_bytes_from(data, 0, delim, cm, sl, st)

\* splitlines_bytes(data: BinaryIO, ...) on a handle positioned at pos
splitlines_stream(data, pos, delim, cm, sl, st, chunk_size) ==
    split_stream_from(data, pos, <<>>, delim, cm, sl, st, chunk_size)

(***************************************************************************)
(* find_bytes_offset_in_stream                                             *)
(***************************************************************************)
\* A read loop that carries nothing from one chunk to the next.
RECURSIVE scan_stream_no_carry(_, _, _, _, _, _)
scan_stream_no_carry(data, rpos, offset, previous, target, chunk_size) ==
    LET chunk == Slice(data, rpos, rpos + chunk_size)
        pos == find(chunk, target, 0)
    IN  IF chunk = <<>> THEN -1
        ELSE IF pos # -1 THEN offset + pos
        ELSE scan_stream_no_carry(data, rpos + Len(chunk),
                                  offset + Len(chunk), <<>>, target,
                                  chunk_size)

\* A read loop that reports the position found in previous + chunk as if
\* it were a position in the chunk.
RECURSIVE scan_stream_chunk_offset(_, _, _, _, _, _)
scan_stream_chunk_offset(data, rpos, offset, previous, target, chunk_size) ==
    LET overlap == Len(target) - 1
        chunk == Slice(data, rpos, rpos + chunk_size)
        haystack == previous \o chunk
        pos == find(haystack, target, 0)
    IN  IF chunk = <<>> THEN -1
        ELSE IF pos # -1 THEN offset + pos
        ELSE scan_stream_chunk_offset(data, rpos + Len(chunk),
                         offset + Len(chunk),
                         IF overlap > 0
                         THEN SliceFrom(haystack,
                                        IF Len(haystack) > overlap
                                        THEN Len(haystack) - overlap ELSE 0)
                         ELSE <<>>,
                         target, chunk_size)

\* The read loop: rpos is the handle's position, offset the bytes consumed
\* before this read, previous the carried tail.  -1 stands for None.
RECURSIVE scan_stream(_, _, _, _, _, _)
scan_stream(data, rpos, offset, previous, target, chunk_size) ==
    LET overlap == Len(target) - 1
        chunk == Slice(data, rpos, rpos + chunk_size)
        haystack == previous \o chunk
        pos == find(haystack, target, 0)
    IN  IF chunk = <<>> THEN -1
        ELSE IF pos # -1 THEN offset - Len(previous) + pos
        ELSE scan_stream(data, rpos + Len(chunk), offset + Len(chunk),
                         IF overlap > 0
                         THEN SliceFrom(haystack,
                                        IF Len(haystack) > overlap
                                        THEN Len(haystack) - overlap ELSE 0)
                         ELSE <<>>,
                         target, chunk_size)

find_bytes_offset_in_stream(data, rpos, target, chunk_size) ==
    scan_stream(data, rpos, 0, <<>>, target, chunk_size)

(***************************************************************************)
(* validate_args, with the constraint tables of append_bytes_to_file and   *)
(* ensure_bytes_present.  Arguments are of the declared types, so only the *)
(* ValueError rules are modelled.  TRUE when validate_args raises.         *)
(***************************************************************************)
\* rules["requires"] = ["unique_bytes"] for a bool parameter
requires_unique_bool(val, unique_bytes) == val /\ ~unique_bytes

\* rules["requires"] = ["unique_bytes"] for a bytes | None parameter
requires_unique_opt(val, unique_bytes) == val # None /\ ~unique_bytes

\* rules["nonempty_if_set"]
nonempty_if_set(val) == val # None /\ Len(val) = 0

\* validate_args without the CONFLICTS list: make_parents is left to its
\* "requires_if" rule, which is never read.
validate_args_without_conflicts(a, has_unlink_first) ==
    \/ a.bytes_payload = <<>>
    \/ has_unlink_first /\ requires_unique_bool(a.unlink_first, a.unique_bytes)
    \/ nonempty_if_set(a.line_ending)
    \/ requires_unique_opt(a.line_ending, a.unique_bytes)
    \/ nonempty_if_set(a.comment_marker)
    \/ requires_unique_opt(a.comment_marker, a.unique_bytes)
    \/ requires_unique_bool(a.ignore_leading_whitespace, a.unique_bytes)
    \/ requires_unique_bool(a.ignore_trailing_whitespace, a.unique_bytes)

\* a: the arguments; has_unlink_first: the table has an "unlink_first" row
\* (append_bytes_to_file) or not (ensure_bytes_present).  The "requires_if"
\* rule of make_parents is only read inside `if "requires" in rules`, which
\* make_parents' row does not have; the CONFLICTS entry is what rejects
\* make_parents without create_if_missing.
validate_args(a, has_unlink_first) ==
    \/ a.bytes_payload = <<>>
    \/ has_unlink_first /\ requires_unique_bool(a.unlink_first, a.unique_bytes)
    \/ nonempty_if_set(a.line_ending)
    \/ requires_unique_opt(a.line_ending, a.unique_bytes)
    \/ nonempty_if_set(a.comment_marker)
    \/ requires_unique_opt(a.comment_marker, a.unique_bytes)
    \/ requires_unique_bool(a.ignore_leading_whitespace, a.unique_bytes)
    \/ requires_unique_bool(a.ignore_trailing_whitespace, a.unique_bytes)
    \/ a.make_parents /\ ~a.create_if_missing

(***************************************************************************)
(* The file system and the processes.                                      *)
(***************************************************************************)
Procs == 1..NProcs

\* The paths callers pass: "t" is the target's own name, "s" a symbolic
\* link to it in the same directory.
Paths == {"t", "s"}

\* The names that are directory entries of regular files: the target's
\* own name and "h", a second name in the same directory that, when
\* present, is a hard link to the target or another file.
Names == {"t", "h"}

is_symlink(path) == path = "s"

\* Path.resolve(): the canonical path
resolve(path) == IF is_symlink(path) THEN "t" ELSE path

\* hashlib.sha256(...).hexdigest(): collision-free on the model's paths
sha256(canonical_path) == <<"sha256", canonical_path>>

\* A lock file named by the hash of the path as passed, unresolved.
get_lockfile_path_unresolved(target_path) == sha256(target_path)

\* get_lockfile_path: the lock file of a target path
get_lockfile_path(target_path) == sha256(resolve(target_path))

\* the names a lock file can have
LockFiles == {sha256(p) : p \in Paths \cup Names}

VARIABLES
    parent,     \* the target's parent directory exists
    dent,       \* dent[n]: inode of directory entry n, 0 when there is none
    data,       \* data[i]: content of inode i
    flk,        \* flk[i]: process holding the flock on inode i, 0 when free
    lockfiles,  \* the lock files present in LOCK_DIR
    nlk,        \* nlk[l]: process holding the flock on lock file l, or 0
    lockdir,    \* the user who owns LOCK_DIR, "none" when it does not exist
    pc,         \* pc[p]: where process p is in append_bytes_to_file
    args,       \* args[p]: the arguments of p's calls
    loc,        \* loc[p]: p's local variables and open descriptors
    todo,       \* todo[p]: calls p has yet to make
    hist,       \* hist[p]: what p's current call has seen and done
    faults,     \* environment faults injected so far
    out         \* out[p]: what p's calls of the byte-string functions gave

vars == <<parent, dent, data, flk, lockfiles, nlk, lockdir, pc, args, loc,
          todo, hist, faults, out>>

fsvars == <<parent, dent, data, flk, lockfiles, nlk>>

\* Locals at the start of a call: no descriptor open, nothing buffered.
\*   attempt: which call of ensure_bytes_present this is (1..3), 0 outside
\*   lock_fd: the lock file descriptor is open
\*   fh: inode the target handle is open on, 0 when closed
\*   pos: the handle's file position;  buf: bytes written but not flushed
\*   exc: the exception propagating ("" when none);  ret: value to return
Locals0 == [attempt |-> 0, lock_fd |-> FALSE, fh |-> 0, pos |-> 0,
            buf |-> <<>>, exc |-> "", ret |-> -1]

\* History of a call: the locks it acquired and released, per layer, the
\* writes that reached the file, the warnings it printed on stderr (which
\* of "unlock" and "close"), the system calls of it a signal interrupted,
\* and, for a call that follows a call of the same process that returned,
\* the target's content at that return (prev; None otherwise).
Hist0 == [named_acq |-> 0, named_rel |-> 0, adv_acq |-> 0, adv_rel |-> 0,
          flushed |-> 0, warned |-> {}, eintr |-> 0, prev |-> None]

\* Results of a process that calls splitlines_bytes or
\* find_bytes_offset_in_stream itself, before any call:
\*   err, segs: ValueError was raised; the segments yielded from bytes
\*   stream_err, stream: the same from a stream read in chunks of chunk
\*   offset: what find_bytes_offset_in_stream returned, -1 for None
Out0 == [err |-> FALSE, segs |-> <<>>, stream_err |-> FALSE,
         stream |-> <<>>, chunk |-> 0, offset |-> -1]

\* the content a path names, None when it names no file
Content(path) ==
    IF parent /\ dent[resolve(path)] # 0 THEN data[dent[resolve(path)]]
    ELSE None

\* A write that ignores the handle's position and lands at offset 0, as
\* without the seek to the end of the file.
WriteAtStart(content, pos, bytes) ==
    bytes \o SliceFrom(content, Min(Len(bytes), Len(content)))

\* pwrite: content with bytes written at offset pos
WriteAt(content, pos, bytes) ==
    Slice(content, 0, pos) \o bytes
        \o SliceFrom(content, Min(pos + Len(bytes), Len(content)))

\* the failing outcomes the environment may still inject
FaultChoices == IF faults < MaxFaults THEN {FALSE, TRUE} ELSE {FALSE}

Fault(f) == faults' = IF f THEN faults + 1 ELSE faults

\* ensure_bytes_present's create_if_missing in the three calls
\* append_bytes_to_file makes
ebp_create(p) == loc[p].attempt >= 2

(***************************************************************************)
(* append_bytes_to_file and ensure_bytes_present: control flow.            *)
(***************************************************************************)
\* ensure_bytes_present up to its first system call (filetool.py:551-563):
\* validate_args with create_if_missing and make_parents as passed in the
\* attempt-th call, the comment_marker == line_ending check, and the branch
\* on make_parents.  l: the caller's locals.
ebp_start(a, l) ==
    LET b == [a EXCEPT !.create_if_missing = l.attempt >= 2,
                       !.make_parents = l.attempt >= 2 /\ a.make_parents]
    IN  IF \/ validate_args(b, FALSE)
           \/ b.comment_marker # None /\ b.comment_marker = b.line_ending
        THEN [pc |-> "done",
              loc |-> [l EXCEPT !.exc = "ValueError", !.attempt = 0]]
        ELSE [pc |-> IF b.make_parents THEN "ebp_mkdir" ELSE "lock_open",
              loc |-> l]

\* An append_bytes_to_file that catches the FileNotFoundError of its third
\* call as well and makes that call again.
after_ebp_retrying(a, l) ==
    IF l.exc = "FileNotFoundError" /\ l.attempt = 1 /\ a.create_if_missing
    THEN ebp_start(a, [l EXCEPT !.attempt = 2, !.exc = ""])
    ELSE IF l.exc = "FileNotFoundError" /\ l.attempt = 2
    THEN IF a.make_parents
         THEN [pc |-> "retry_mkdir", loc |-> [l EXCEPT !.exc = ""]]
         ELSE ebp_start(a, [l EXCEPT !.attempt = 3, !.exc = ""])
    ELSE IF l.exc = "FileNotFoundError" /\ l.attempt = 3
    THEN ebp_start(a, [l EXCEPT !.exc = ""])
    ELSE [pc |-> "done", loc |-> [l EXCEPT !.attempt = 0]]

\* What append_bytes_to_file does when its call of ensure_bytes_present
\* returns or raises (filetool.py:745-816): l.exc is the exception ("" for
\* a return), l.attempt the call it came from.
after_ebp(a, l) ==
    IF l.exc = "FileNotFoundError" /\ l.attempt = 1 /\ a.create_if_missing
    THEN ebp_start(a, [l EXCEPT !.attempt = 2, !.exc = ""])
    ELSE IF l.exc = "FileNotFoundError" /\ l.attempt = 2
    THEN IF a.make_parents
         THEN [pc |-> "retry_mkdir", loc |-> [l EXCEPT !.exc = ""]]
         ELSE ebp_start(a, [l EXCEPT !.attempt = 3, !.exc = ""])
    ELSE [pc |-> "done", loc |-> [l EXCEPT !.attempt = 0]]

\* append_bytes_to_file up to its first system call (filetool.py:709-756):
\* validate_args, the branch on unlink_first, the first call of
\* ensure_bytes_present.
append_start(a) ==
    IF validate_args(a, TRUE)
    THEN [pc |-> "done", loc |-> [Locals0 EXCEPT !.exc = "ValueError"]]
    ELSE IF a.unlink_first
    THEN [pc |-> "unlink", loc |-> Locals0]
    ELSE ebp_start(a, [Locals0 EXCEPT !.attempt = 1])

\* A process calls append_bytes_to_file.
Call(p) ==
    /\ pc[p] \in {"start", "done"}
    /\ ~args[p].direct
    /\ todo[p] > 0
    /\ pc' = [pc EXCEPT ![p] = append_start(args[p]).pc]
    /\ loc' = [loc EXCEPT ![p] = append_start(args[p]).loc]
    /\ todo' = [todo EXCEPT ![p] = @ - 1]
    /\ hist' = [hist EXCEPT ![p] =
                   [Hist0 EXCEPT !.prev = IF pc[p] = "done" /\ loc[p].exc = ""
                                          THEN Content(args[p].path)
                                          ELSE None]]
    /\ UNCHANGED <<fsvars, args, faults>>
    /\ UNCHANGED <<lockdir, out>>

(***************************************************************************)
(* The unlink_first path of append_bytes_to_file.                          *)
(***************************************************************************)
\* path.unlink(), FileNotFoundError ignored (filetool.py:718-721)
Unlink(p) ==
    /\ pc[p] = "unlink"
    /\ dent' = IF parent THEN [dent EXCEPT ![args[p].path] = 0] ELSE dent
    /\ pc' = [pc EXCEPT ![p] = IF args[p].make_parents THEN "ul_mkdir"
                                ELSE "ul_create"]
    /\ UNCHANGED <<parent, data, flk, lockfiles, nlk, args, loc, todo, hist,
                   faults>>
    /\ UNCHANGED <<lockdir, out>>

\* path.parent.mkdir(parents=True, exist_ok=True) (filetool.py:723-724)
UlMkdir(p) ==
    /\ pc[p] = "ul_mkdir"
    /\ parent' = TRUE
    /\ pc' = [pc EXCEPT ![p] = "ul_create"]
    /\ UNCHANGED <<dent, data, flk, lockfiles, nlk, args, loc, todo, hist,
                   faults>>
    /\ UNCHANGED <<lockdir, out>>

\* An open(path, "wb") in place of the exclusive create: a file that is
\* there is truncated and written.
UlCreateTruncating(p) ==
    /\ pc[p] = "ul_create"
    /\ IF ~parent
       THEN /\ pc' = [pc EXCEPT ![p] = "done"]
            /\ loc' = [loc EXCEPT ![p].exc = "FileNotFoundError"]
            /\ UNCHANGED <<dent, data, flk>>
       ELSE IF dent[args[p].path] # 0
       THEN /\ data' = [data EXCEPT ![dent[args[p].path]] = <<>>]
            /\ pc' = [pc EXCEPT ![p] = "ul_flush"]
            /\ loc' = [loc EXCEPT ![p].fh = dent[args[p].path],
                                  ![p].pos = 0,
                                  ![p].buf = args[p].bytes_payload]
            /\ UNCHANGED <<dent, flk>>
       ELSE /\ data' = Append(data, <<>>)
            /\ flk' = Append(flk, 0)
            /\ dent' = [dent EXCEPT ![args[p].path] = Len(data) + 1]
            /\ pc' = [pc EXCEPT ![p] = "ul_flush"]
            /\ loc' = [loc EXCEPT ![p].fh = Len(data) + 1, ![p].pos = 0,
                                  ![p].buf = args[p].bytes_payload]
    /\ UNCHANGED <<parent, lockfiles, nlk, args, todo, hist, faults>>
    /\ UNCHANGED <<lockdir, out>>

\* open(path, "xb"): exclusive create, then fh.write(bytes_payload) into
\* the handle's buffer (filetool.py:727-728, 731-734).  An existing file is
\* the detected race; a missing parent is not caught.
UlCreate(p) ==
    /\ pc[p] = "ul_create"
    /\ IF ~parent
       THEN /\ pc' = [pc EXCEPT ![p] = "done"]
            /\ loc' = [loc EXCEPT ![p].exc = "FileNotFoundError"]
            /\ UNCHANGED <<dent, data, flk>>
       ELSE IF dent[args[p].path] # 0
       THEN /\ pc' = [pc EXCEPT ![p] = "done"]
            /\ loc' = [loc EXCEPT ![p].exc = "FileExistsError"]
            /\ UNCHANGED <<dent, data, flk>>
       ELSE /\ data' = Append(data, <<>>)
            /\ flk' = Append(flk, 0)
            /\ dent' = [dent EXCEPT ![args[p].path] = Len(data) + 1]
            /\ pc' = [pc EXCEPT ![p] = "ul_flush"]
            /\ loc' = [loc EXCEPT ![p].fh = Len(data) + 1, ![p].pos = 0,
                                  ![p].buf = args[p].bytes_payload]
    /\ UNCHANGED <<parent, lockfiles, nlk, args, todo, hist, faults>>
    /\ UNCHANGED <<lockdir, out>>

\* An fh.flush() whose failure is swallowed: the buffer is dropped and the
\* call carries on to the fsync.
UlFlushSwallowing(p) ==
    /\ pc[p] = "ul_flush"
    /\ \E f \in FaultChoices :
        /\ Fault(f)
        /\ IF f
           THEN /\ loc' = [loc EXCEPT ![p].buf = <<>>]
                /\ UNCHANGED <<data, hist>>
           ELSE /\ data' = [data EXCEPT ![loc[p].fh] =
                                WriteAt(@, loc[p].pos, loc[p].buf)]
                /\ loc' = [loc EXCEPT ![p].buf = <<>>,
                                      ![p].pos = @ + Len(loc[p].buf)]
                /\ hist' = [hist EXCEPT ![p].flushed = @ + 1]
    /\ pc' = [pc EXCEPT ![p] = "ul_fsync"]
    /\ UNCHANGED <<parent, dent, flk, lockfiles, nlk, args, todo>>
    /\ UNCHANGED <<lockdir, out>>

\* fh.flush(): one write() of the buffer at the handle's position
\* (filetool.py:729); it may fail with OSError, the buffer kept.
UlFlush(p) ==
    /\ pc[p] = "ul_flush"
    /\ \E f \in FaultChoices :
        /\ Fault(f)
        /\ IF f
           THEN /\ loc' = [loc EXCEPT ![p].exc = "OSError"]
                /\ pc' = [pc EXCEPT ![p] = "ul_close"]
                /\ UNCHANGED <<data, hist>>
           ELSE /\ data' = [data EXCEPT ![loc[p].fh] =
                                WriteAt(@, loc[p].pos, loc[p].buf)]
                /\ loc' = [loc EXCEPT ![p].buf = <<>>,
                                      ![p].pos = @ + Len(loc[p].buf)]
                /\ hist' = [hist EXCEPT ![p].flushed = @ + 1]
                /\ pc' = [pc EXCEPT ![p] = "ul_fsync"]
    /\ UNCHANGED <<parent, dent, flk, lockfiles, nlk, args, todo>>
    /\ UNCHANGED <<lockdir, out>>

\* fsync_eintr_safe(fh.fileno()) (filetool.py:730)
UlFsync(p) ==
    /\ pc[p] = "ul_fsync"
    /\ \E f \in FaultChoices :
        /\ Fault(f)
        /\ loc' = IF f THEN [loc EXCEPT ![p].exc = "OSError"]
                  ELSE [loc EXCEPT ![p].ret = Len(args[p].bytes_payload)]
    /\ pc' = [pc EXCEPT ![p] = "ul_close"]
    /\ UNCHANGED <<fsvars, args, todo, hist>>
    /\ UNCHANGED <<lockdir, out>>

\* the end of `with open(...) as fh`: fh.close(), which writes what is
\* still buffered (it may fail again), then return or raise
\* (filetool.py:727-735)
UlClose(p) ==
    /\ pc[p] = "ul_close"
    /\ \E ok \in IF loc[p].buf = <<>> THEN {TRUE} ELSE {TRUE, FALSE} :
        /\ data' = IF ok /\ loc[p].buf # <<>>
                   THEN [data EXCEPT ![loc[p].fh] =
                            WriteAt(@, loc[p].pos, loc[p].buf)]
                   ELSE data
        /\ hist' = IF ok /\ loc[p].buf # <<>>
                   THEN [hist EXCEPT ![p].flushed = @ + 1] ELSE hist
    /\ loc' = [loc EXCEPT ![p].fh = 0, ![p].pos = 0, ![p].buf = <<>>]
    /\ pc' = [pc EXCEPT ![p] = "done"]
    /\ UNCHANGED <<parent, dent, flk, lockfiles, nlk, args, todo, faults>>
    /\ UNCHANGED <<lockdir, out>>

(***************************************************************************)
(* ensure_bytes_present and locked_file_handle.                            *)
(***************************************************************************)
\* path.parent.mkdir(parents=True, exist_ok=True) (filetool.py:562-563)
EbpMkdir(p) ==
    /\ pc[p] = "ebp_mkdir"
    /\ parent' = TRUE
    /\ pc' = [pc EXCEPT ![p] = "lock_open"]
    /\ UNCHANGED <<dent, data, flk, lockfiles, nlk, args, loc, todo, hist,
                   faults>>
    /\ UNCHANGED <<lockdir, out>>

\* The users of the machine: root is privileged (it passes every
\* permission check), the others are not.
Users == {"root", "alice", "bob"}

\* LOCK_DIR.mkdir(parents=True, exist_ok=True, mode=0o700) at import
\* (filetool.py:35-37): the directory is created by the first user, for
\* its owner only, and left as it is when it exists.
lock_dir_mkdir(uid) == IF lockdir = "none" THEN uid ELSE lockdir

\* A directory of mode 0o700 can be searched by its owner and by root.
may_search_lock_dir(uid) == uid = "root" \/ uid = lockdir

\* lock_fd = open_with_mode(lock_path, O_CREAT | O_RDWR | O_NOFOLLOW, 0o666)
\* (filetool.py:566-568).  The lock file is created with mode 0o666 under
\* umask 0, so every user who can search LOCK_DIR can open it; a user who
\* cannot gets PermissionError, raised before the try block: the call ends.
LockOpen(p) ==
    /\ pc[p] = "lock_open"
    /\ IF may_search_lock_dir(args[p].uid)
       THEN /\ lockfiles' = lockfiles \cup {get_lockfile_path(args[p].path)}
            /\ loc' = [loc EXCEPT ![p].lock_fd = TRUE]
            /\ pc' = [pc EXCEPT ![p] = "lock_flock"]
       ELSE /\ lockfiles' = lockfiles
            /\ loc' = [loc EXCEPT ![p].exc = "PermissionError",
                                  ![p].attempt = 0]
            /\ pc' = [pc EXCEPT ![p] = "done"]
    /\ UNCHANGED <<parent, dent, data, flk, nlk, args, todo, hist, faults>>
    /\ UNCHANGED <<lockdir, out>>

\* the named lock is free for p to take
named_lock_free(p) == nlk[get_lockfile_path(args[p].path)] = 0

\* A flock on the lock file that does not wait: it returns with the lock
\* whether or not another process holds it.
LockFlockStealing(p) ==
    /\ pc[p] = "lock_flock"
    /\ \E f \in FaultChoices :
        /\ Fault(f)
        /\ IF f
           THEN /\ loc' = [loc EXCEPT ![p].exc = "OSError"]
                /\ pc' = [pc EXCEPT ![p] = "close_lock"]
                /\ UNCHANGED <<nlk, hist>>
           ELSE /\ nlk' = [nlk EXCEPT ![get_lockfile_path(args[p].path)] = p]
                /\ hist' = [hist EXCEPT ![p].named_acq = @ + 1]
                /\ pc' = [pc EXCEPT ![p] = IF ebp_create(p) THEN "lfh_create"
                                           ELSE "lfh_open"]
                /\ loc' = loc
    /\ UNCHANGED <<parent, dent, data, flk, lockfiles, args, todo>>
    /\ UNCHANGED <<lockdir, out>>

\* An ensure_bytes_present that opens the lock file and goes on to the
\* target without fcntl.flock(lock_fd, LOCK_EX).
LockFlockOmitted(p) ==
    /\ pc[p] = "lock_flock"
    /\ pc' = [pc EXCEPT ![p] = IF ebp_create(p) THEN "lfh_create"
                                ELSE "lfh_open"]
    /\ UNCHANGED <<parent, dent, data, flk, lockfiles, nlk, args, loc, todo>>
    /\ UNCHANGED <<hist, faults, lockdir, out>>

\* fcntl.flock(lock_fd, fcntl.LOCK_EX): blocks until the lock is free
\* (filetool.py:570); it may fail with OSError.
LockFlock(p) ==
    /\ pc[p] = "lock_flock"
    /\ \E f \in FaultChoices :
        /\ Fault(f)
        /\ IF f
           THEN /\ loc' = [loc EXCEPT ![p].exc = "OSError"]
                /\ pc' = [pc EXCEPT ![p] = "close_lock"]
                /\ UNCHANGED <<nlk, hist>>
           ELSE /\ named_lock_free(p)
                /\ nlk' = [nlk EXCEPT ![get_lockfile_path(args[p].path)] = p]
                /\ hist' = [hist EXCEPT ![p].named_acq = @ + 1]
                /\ pc' = [pc EXCEPT ![p] = IF ebp_create(p) THEN "lfh_create"
                                           ELSE "lfh_open"]
                /\ loc' = loc
    /\ UNCHANGED <<parent, dent, data, flk, lockfiles, args, todo>>
    /\ UNCHANGED <<lockdir, out>>

\* Where control goes when locked_file_handle raises or its with block
\* ends: to ensure_bytes_present's finally, or back to the caller that
\* entered the context manager itself.
lfh_exit(p) == IF args[p].direct THEN "done" ELSE "close_lock"

\* A process enters `with locked_file_handle(path, mode="rb+", blocking,
\* create) as fh` itself, as the tests of the context manager do
\* (filetool.py:78-131).
LfhCall(p) ==
    /\ pc[p] = "start"
    /\ args[p].direct
    /\ todo[p] > 0
    /\ pc' = [pc EXCEPT ![p] = IF args[p].create_if_missing THEN "lfh_create"
                                ELSE "lfh_open"]
    /\ loc' = [loc EXCEPT ![p] = Locals0]
    /\ todo' = [todo EXCEPT ![p] = @ - 1]
    /\ hist' = [hist EXCEPT ![p] = Hist0]
    /\ UNCHANGED <<fsvars, args, faults>>
    /\ UNCHANGED <<lockdir, out>>

\* A create step that truncates a file it finds (O_CREAT | O_TRUNC, as
\* open(path, "wb") does) instead of failing with EEXIST.
LfhCreateTruncating(p) ==
    /\ pc[p] = "lfh_create"
    /\ IF ~parent
       THEN /\ loc' = [loc EXCEPT ![p].exc = "FileNotFoundError"]
            /\ pc' = [pc EXCEPT ![p] = lfh_exit(p)]
            /\ UNCHANGED <<dent, data, flk>>
       ELSE /\ IF dent[resolve(args[p].path)] # 0
               THEN /\ data' = [data EXCEPT ![dent[resolve(args[p].path)]] =
                                    <<>>]
                    /\ UNCHANGED <<dent, flk>>
               ELSE /\ data' = Append(data, <<>>)
                    /\ flk' = Append(flk, 0)
                    /\ dent' = [dent EXCEPT ![resolve(args[p].path)] =
                                    Len(data) + 1]
            /\ pc' = [pc EXCEPT ![p] = "lfh_open"]
            /\ loc' = loc
    /\ UNCHANGED <<parent, lockfiles, nlk, args, todo, hist, faults>>
    /\ UNCHANGED <<lockdir, out>>

\* locked_file_handle, create=True: open_eintr_safe(path, O_CREAT | O_EXCL
\* | O_RDWR); os.close(fd); FileExistsError ignored (filetool.py:132-140).
\* O_EXCL fails with EEXIST on a symbolic link, whatever it points to.
LfhCreate(p) ==
    /\ pc[p] = "lfh_create"
    /\ IF ~parent
       THEN /\ loc' = [loc EXCEPT ![p].exc = "FileNotFoundError"]
            /\ pc' = [pc EXCEPT ![p] = lfh_exit(p)]
            /\ UNCHANGED <<dent, data, flk>>
       ELSE /\ IF is_symlink(args[p].path) \/ dent[args[p].path] # 0
               THEN UNCHANGED <<dent, data, flk>>
               ELSE /\ data' = Append(data, <<>>)
                    /\ flk' = Append(flk, 0)
                    /\ dent' = [dent EXCEPT ![args[p].path] = Len(data) + 1]
            /\ pc' = [pc EXCEPT ![p] = "lfh_open"]
            /\ loc' = loc
    /\ UNCHANGED <<parent, lockfiles, nlk, args, todo, hist, faults>>
    /\ UNCHANGED <<lockdir, out>>

\* fh = open(path, mode) with mode "rb+" (filetool.py:144): follows the
\* symbolic link; raises FileNotFoundError when the file is missing.
LfhOpen(p) ==
    /\ pc[p] = "lfh_open"
    /\ IF Content(args[p].path) = None
       THEN /\ loc' = [loc EXCEPT ![p].exc = "FileNotFoundError"]
            /\ pc' = [pc EXCEPT ![p] = lfh_exit(p)]
       ELSE /\ loc' = [loc EXCEPT ![p].fh = dent[resolve(args[p].path)],
                                  ![p].pos = 0]
            /\ pc' = [pc EXCEPT ![p] = "lfh_flock"]
    /\ UNCHANGED <<fsvars, args, todo, hist, faults>>
    /\ UNCHANGED <<lockdir, out>>

\* the advisory lock on the inode p has open is free
advisory_lock_free(p) == flk[loc[p].fh] = 0

\* A flock call whose lock_mode never gets LOCK_NB: every caller waits.
LfhFlockAlwaysBlocking(p) ==
    /\ pc[p] = "lfh_flock"
    /\ \E f \in FaultChoices :
        /\ Fault(f)
        /\ IF f
           THEN /\ loc' = [loc EXCEPT ![p].exc = "OSError", ![p].fh = 0]
                /\ pc' = [pc EXCEPT ![p] = lfh_exit(p)]
                /\ UNCHANGED <<flk, hist>>
           ELSE /\ advisory_lock_free(p)
                /\ flk' = [flk EXCEPT ![loc[p].fh] = p]
                /\ hist' = [hist EXCEPT ![p].adv_acq = @ + 1]
                /\ pc' = [pc EXCEPT ![p] = IF args[p].direct THEN "body"
                                           ELSE "check"]
                /\ loc' = loc
    /\ UNCHANGED <<parent, dent, data, lockfiles, nlk, args, todo>>
    /\ UNCHANGED <<lockdir, out>>

\* The exception locked_file_handle raises when flock fails with errno
\* (filetool.py:161-168): ENOLCK is replaced by an OSError that names the
\* likely cause, "Locking unavailable (ENOLCK). Possibly NFSv3 or
\* misconfigured lockd."; any other error is re-raised as it is.
flock_error(errno) ==
    IF errno = "ENOLCK" THEN "OSError: Locking unavailable (ENOLCK)"
    ELSE "OSError"

\* A locked_file_handle that re-raises every flock error as it is.
LfhFlockReraising(p) ==
    /\ pc[p] = "lfh_flock"
    /\ \E f \in IF args[p].flock_errno # "none" THEN {TRUE} ELSE FaultChoices :
        /\ Fault(f /\ args[p].flock_errno = "none")
        /\ IF f
           THEN /\ loc' = [loc EXCEPT ![p].exc = "OSError", ![p].fh = 0]
                /\ pc' = [pc EXCEPT ![p] = lfh_exit(p)]
                /\ UNCHANGED <<flk, hist>>
           ELSE IF ~args[p].blocking /\ ~advisory_lock_free(p)
           THEN /\ loc' = [loc EXCEPT ![p].exc = "BlockingIOError",
                                      ![p].fh = 0]
                /\ pc' = [pc EXCEPT ![p] = lfh_exit(p)]
                /\ UNCHANGED <<flk, hist>>
           ELSE /\ advisory_lock_free(p)
                /\ flk' = [flk EXCEPT ![loc[p].fh] = p]
                /\ hist' = [hist EXCEPT ![p].adv_acq = @ + 1]
                /\ pc' = [pc EXCEPT ![p] = IF args[p].direct THEN "body"
                                           ELSE "check"]
                /\ loc' = loc
    /\ UNCHANGED <<parent, dent, data, lockfiles, nlk, args, todo>>
    /\ UNCHANGED <<lockdir, out>>


\* fcntl.flock(fh.fileno(), lock_mode) with lock_mode LOCK_EX, or
\* LOCK_EX | LOCK_NB when not blocking (filetool.py:146-168).  On ENOLCK
\* the handle is closed and OSError raised; without blocking, a lock held
\* by someone else closes the handle and raises BlockingIOError; the
\* finally block then finds the handle closed.  Otherwise the call waits
\* until the lock is free and the body of the with block is entered.
LfhFlock(p) ==
    /\ pc[p] = "lfh_flock"
    /\ \E f \in IF args[p].flock_errno # "none" THEN {TRUE} ELSE FaultChoices :
        /\ Fault(f /\ args[p].flock_errno = "none")
        /\ IF f
           THEN /\ loc' = [loc EXCEPT
                             ![p].exc = flock_error(args[p].flock_errno),
                             ![p].fh = 0]
                /\ pc' = [pc EXCEPT ![p] = lfh_exit(p)]
                /\ UNCHANGED <<flk, hist>>
           ELSE IF ~args[p].blocking /\ ~advisory_lock_free(p)
           THEN /\ loc' = [loc EXCEPT ![p].exc = "BlockingIOError",
                                      ![p].fh = 0]
                /\ pc' = [pc EXCEPT ![p] = lfh_exit(p)]
                /\ UNCHANGED <<flk, hist>>
           ELSE /\ advisory_lock_free(p)
                /\ flk' = [flk EXCEPT ![loc[p].fh] = p]
                /\ hist' = [hist EXCEPT ![p].adv_acq = @ + 1]
                /\ pc' = [pc EXCEPT ![p] = IF args[p].direct THEN "body"
                                           ELSE "check"]
                /\ loc' = loc
    /\ UNCHANGED <<parent, dent, data, lockfiles, nlk, args, todo>>
    /\ UNCHANGED <<lockdir, out>>

\* The body of a with block entered directly: fh.write(bytes_payload) at
\* the handle's position, offset 0, which puts the payload in the handle's
\* buffer and returns its length
\* (tests/test_locked_file_handle_failure_cases.py:48-52).
LfhBody(p) ==
    /\ pc[p] = "body"
    /\ loc' = [loc EXCEPT ![p].buf = args[p].bytes_payload,
                          ![p].ret = Len(args[p].bytes_payload)]
    /\ pc' = [pc EXCEPT ![p] = "unlock"]
    /\ UNCHANGED <<fsvars, args, todo, hist, faults>>
    /\ UNCHANGED <<lockdir, out>>

\* A uniqueness check that looks for the payload as a substring whether
\* or not a line delimiter is given.
uniqueness_check_substring(content, a) ==
    IF ~a.unique_bytes THEN "absent"
    ELSE IF a.line_ending # None
            /\ splitlines_bytes_error(a.line_ending, a.comment_marker)
    THEN "error"
    ELSE IF contains(content, a.bytes_payload) THEN "present" ELSE "absent"

\* The uniqueness check of ensure_bytes_present on a handle at offset 0
\* (filetool.py:579-597): "error" when splitlines_bytes raises, "present"
\* when the payload is found, "absent" otherwise.
uniqueness_check(content, a) ==
    IF ~a.unique_bytes THEN "absent"
    ELSE IF a.line_ending # None
    THEN IF splitlines_bytes_error(a.line_ending, a.comment_marker)
         THEN "error"
         ELSE LET segs == splitlines_stream(content, 0, a.line_ending,
                              a.comment_marker, a.ignore_leading_whitespace,
                              a.ignore_trailing_whitespace, ChunkSize)
              IN  IF \E k \in 1..Len(segs) : segs[k] = a.bytes_payload
                  THEN "present" ELSE "absent"
    ELSE IF find_bytes_offset_in_stream(content, 0, a.bytes_payload,
                                        ChunkSize) # -1
         THEN "present" ELSE "absent"

\* fh.seek(0) and the uniqueness check; when the payload is to be written,
\* fh.seek(0, os.SEEK_END) and fh.write(bytes_payload), which puts it in
\* the handle's buffer (filetool.py:578-600)
Check(p) ==
    /\ pc[p] = "check"
    /\ LET r == uniqueness_check(data[loc[p].fh], args[p])
       IN  /\ loc' = [loc EXCEPT
                        ![p].exc = IF r = "error" THEN "ValueError" ELSE @,
                        ![p].ret = IF r = "present" THEN 0 ELSE @,
                        ![p].pos = IF r = "absent" THEN Len(data[loc[p].fh])
                                   ELSE 0,
                        ![p].buf = IF r = "absent" THEN args[p].bytes_payload
                                   ELSE @]
           /\ pc' = [pc EXCEPT ![p] = IF r = "absent" THEN "flush"
                                      ELSE "unlock"]
    /\ UNCHANGED <<fsvars, args, todo, hist, faults>>
    /\ UNCHANGED <<lockdir, out>>

\* fh.flush(): one write() of the buffer at the handle's position
\* (filetool.py:601); it may fail with OSError, the buffer kept.
Flush(p) ==
    /\ pc[p] = "flush"
    /\ \E f \in FaultChoices :
        /\ Fault(f)
        /\ IF f
           THEN /\ loc' = [loc EXCEPT ![p].exc = "OSError"]
                /\ pc' = [pc EXCEPT ![p] = "unlock"]
                /\ UNCHANGED <<data, hist>>
           ELSE /\ data' = [data EXCEPT ![loc[p].fh] =
                                WriteAt(@, loc[p].pos, loc[p].buf)]
                /\ loc' = [loc EXCEPT ![p].buf = <<>>,
                                      ![p].pos = @ + Len(loc[p].buf)]
                /\ hist' = [hist EXCEPT ![p].flushed = @ + 1]
                /\ pc' = [pc EXCEPT ![p] = "fsync"]
    /\ UNCHANGED <<parent, dent, flk, lockfiles, nlk, args, todo>>
    /\ UNCHANGED <<lockdir, out>>

\* fsync_eintr_safe(fh.fileno()); return len(bytes_payload)
\* (filetool.py:602-603)
Fsync(p) ==
    /\ pc[p] = "fsync"
    /\ \E f \in FaultChoices :
        /\ Fault(f)
        /\ loc' = IF f THEN [loc EXCEPT ![p].exc = "OSError"]
                  ELSE [loc EXCEPT ![p].ret = Len(args[p].bytes_payload)]
    /\ pc' = [pc EXCEPT ![p] = "unlock"]
    /\ UNCHANGED <<fsvars, args, todo, hist>>
    /\ UNCHANGED <<lockdir, out>>

\* A finally block without the LOCK_UN call, which leaves the release of
\* the lock to the closing of the handle.
UnlockByCloseOnly(p) ==
    /\ pc[p] = "unlock"
    /\ pc' = [pc EXCEPT ![p] = "close_fh"]
    /\ UNCHANGED <<fsvars, args, loc, todo, hist, faults>>
    /\ UNCHANGED <<lockdir, out>>

\* locked_file_handle's finally: fcntl.flock(fileno, LOCK_UN); a failure
\* is only warned about (filetool.py:172-181).  unlock_fails: the call is
\* one that raises OSError, as the patched fcntl.flock of the failure
\* tests.
Unlock(p) ==
    /\ pc[p] = "unlock"
    /\ \E f \in IF args[p].unlock_fails THEN {TRUE} ELSE FaultChoices :
        /\ Fault(f /\ ~args[p].unlock_fails)
        /\ flk' = IF f THEN flk ELSE [flk EXCEPT ![loc[p].fh] = 0]
        /\ hist' = IF f THEN [hist EXCEPT ![p].warned = @ \cup {"unlock"}]
                   ELSE [hist EXCEPT ![p].adv_rel = @ + 1]
    /\ pc' = [pc EXCEPT ![p] = "close_fh"]
    /\ UNCHANGED <<parent, dent, data, lockfiles, nlk, args, loc, todo>>
    /\ UNCHANGED <<lockdir, out>>

\* A finally block whose fh.close() is outside any try: a failing close
\* propagates to the caller in place of the body's result.
CloseFhRaising(p) ==
    /\ pc[p] = "close_fh"
    /\ IF args[p].close_fails
       THEN /\ loc' = [loc EXCEPT ![p].exc = "OSError", ![p].ret = -1]
            /\ UNCHANGED <<data, flk, hist>>
       ELSE /\ \E ok \in IF loc[p].buf = <<>> THEN {TRUE} ELSE {TRUE, FALSE} :
                /\ data' = IF ok /\ loc[p].buf # <<>>
                           THEN [data EXCEPT ![loc[p].fh] =
                                    WriteAt(@, loc[p].pos, loc[p].buf)]
                           ELSE data
                /\ hist' = [hist EXCEPT
                              ![p].flushed = IF ok /\ loc[p].buf # <<>>
                                             THEN @ + 1 ELSE @,
                              ![p].adv_rel = IF flk[loc[p].fh] = p THEN @ + 1
                                             ELSE @]
                /\ loc' = [loc EXCEPT
                             ![p].fh = 0, ![p].pos = 0, ![p].buf = <<>>,
                             ![p].exc = IF ok THEN @ ELSE "OSError",
                             ![p].ret = IF ok THEN @ ELSE -1]
            /\ flk' = IF flk[loc[p].fh] = p THEN [flk EXCEPT ![loc[p].fh] = 0]
                      ELSE flk
    /\ pc' = [pc EXCEPT ![p] = lfh_exit(p)]
    /\ UNCHANGED <<parent, dent, lockfiles, nlk, args, todo, faults>>
    /\ UNCHANGED <<lockdir, out>>

\* locked_file_handle's finally: fh.close() (filetool.py:182-187); a
\* failure is only warned about and nothing else is done with the handle.
\* The handle open() returns writes what is still buffered, which may fail
\* again, and closes the descriptor, which drops a flock still held on it.
\* close_fails: the handle's close() is one that raises before it closes
\* anything, as the handles of the failure tests
\* (tests/test_locked_file_handle_failure_cases.py:36-42); the descriptor
\* stays open, with whatever lock it holds.
CloseFh(p) ==
    /\ pc[p] = "close_fh"
    /\ IF args[p].close_fails
       THEN /\ hist' = [hist EXCEPT ![p].warned = @ \cup {"close"}]
            /\ UNCHANGED <<data, flk, loc>>
       ELSE /\ \E ok \in IF loc[p].buf = <<>> THEN {TRUE} ELSE {TRUE, FALSE} :
                /\ data' = IF ok /\ loc[p].buf # <<>>
                           THEN [data EXCEPT ![loc[p].fh] =
                                    WriteAt(@, loc[p].pos, loc[p].buf)]
                           ELSE data
                /\ hist' = [hist EXCEPT
                              ![p].flushed = IF ok /\ loc[p].buf # <<>>
                                             THEN @ + 1 ELSE @,
                              ![p].warned = IF ok THEN @
                                            ELSE @ \cup {"close"},
                              ![p].adv_rel = IF flk[loc[p].fh] = p THEN @ + 1
                                             ELSE @]
            /\ flk' = IF flk[loc[p].fh] = p THEN [flk EXCEPT ![loc[p].fh] = 0]
                      ELSE flk
            /\ loc' = [loc EXCEPT ![p].fh = 0, ![p].pos = 0, ![p].buf = <<>>]
    /\ pc' = [pc EXCEPT ![p] = lfh_exit(p)]
    /\ UNCHANGED <<parent, dent, lockfiles, nlk, args, todo, faults>>
    /\ UNCHANGED <<lockdir, out>>

\* A lock descriptor that is closed when the call returns but left open,
\* with its lock, when an exception propagates (no finally).
CloseLockOnReturnOnly(p) ==
    /\ pc[p] = "close_lock"
    /\ LET l == get_lockfile_path(args[p].path)
           held == nlk[l] = p /\ loc[p].exc = ""
           x == after_ebp(args[p], [loc[p] EXCEPT !.lock_fd = loc[p].exc # ""])
       IN  /\ nlk' = IF held THEN [nlk EXCEPT ![l] = 0] ELSE nlk
           /\ hist' = IF held THEN [hist EXCEPT ![p].named_rel = @ + 1]
                      ELSE hist
           /\ pc' = [pc EXCEPT ![p] = x.pc]
           /\ loc' = [loc EXCEPT ![p] = x.loc]
    /\ UNCHANGED <<parent, dent, data, flk, lockfiles, args, todo, faults>>
    /\ UNCHANGED <<lockdir, out>>

\* ensure_bytes_present's finally: os.close(lock_fd), which drops the named
\* lock (filetool.py:604-605); then the caller's except clauses.
CloseLock(p) ==
    /\ pc[p] = "close_lock"
    /\ LET l == get_lockfile_path(args[p].path)
           x == after_ebp(args[p], [loc[p] EXCEPT !.lock_fd = FALSE])
       IN  /\ nlk' = IF nlk[l] = p THEN [nlk EXCEPT ![l] = 0] ELSE nlk
           /\ hist' = IF nlk[l] = p THEN [hist EXCEPT ![p].named_rel = @ + 1]
                      ELSE hist
           /\ pc' = [pc EXCEPT ![p] = x.pc]
           /\ loc' = [loc EXCEPT ![p] = x.loc]
    /\ UNCHANGED <<parent, dent, data, flk, lockfiles, args, todo, faults>>
    /\ UNCHANGED <<lockdir, out>>

\* path.parent.mkdir(parents=True, exist_ok=True) after the second call
\* failed, then the third call (filetool.py:795-805)
RetryMkdir(p) ==
    /\ pc[p] = "retry_mkdir"
    /\ parent' = TRUE
    /\ LET x == ebp_start(args[p], [loc[p] EXCEPT !.attempt = 3])
       IN  pc' = [pc EXCEPT ![p] = x.pc] /\ loc' = [loc EXCEPT ![p] = x.loc]
    /\ UNCHANGED <<dent, data, flk, lockfiles, nlk, args, todo, hist, faults>>
    /\ UNCHANGED <<lockdir, out>>

(***************************************************************************)
(* Signals.                                                                *)
(***************************************************************************)
\* the blocking system calls of a call, by the position of the caller: the
\* open of the lock file and the exclusive create (open_eintr_safe,
\* filetool.py:54-61), the two flock calls, the open of the target, fsync
\* (fsync_eintr_safe, filetool.py:44-51)
EintrPoints ==
    {"lock_open", "lock_flock", "lfh_create", "lfh_open", "lfh_flock",
     "fsync", "ul_fsync"}

\* A signal with a handler that returns interrupts p's system call, which
\* fails with EINTR and propagates as InterruptedError: a call without any
\* retry, in the code or in the interpreter.
EintrRaised(p) ==
    /\ pc[p] \in EintrPoints
    /\ faults < MaxFaults
    /\ faults' = faults + 1
    /\ hist' = [hist EXCEPT ![p].eintr = @ + 1]
    /\ loc' = [loc EXCEPT ![p].exc = "InterruptedError"]
    /\ pc' = [pc EXCEPT ![p] =
                 IF pc[p] = "lock_open" THEN "done"
                 ELSE IF pc[p] \in {"lock_flock", "lfh_create", "lfh_open"}
                 THEN "close_lock"
                 ELSE IF pc[p] = "lfh_flock" THEN "close_fh"
                 ELSE IF pc[p] = "fsync" THEN "unlock" ELSE "ul_close"]
    /\ UNCHANGED <<fsvars, args, todo>>
    /\ UNCHANGED <<lockdir, out>>

\* A signal with a handler that returns interrupts p's system call, which
\* fails with EINTR: the loops of open_eintr_safe, fsync_eintr_safe and
\* locked_file_handle (filetool.py:44-61, 150-162), and the interpreter's
\* own retry inside open(), os.open, os.fsync and fcntl.flock (the flock
\* of line 570 has no loop of its own), make the call again; nothing has
\* changed but the count of interruptions.
Eintr(p) ==
    /\ pc[p] \in EintrPoints
    /\ faults < MaxFaults
    /\ faults' = faults + 1
    /\ hist' = [hist EXCEPT ![p].eintr = @ + 1]
    /\ UNCHANGED <<fsvars, pc, args, loc, todo>>
    /\ UNCHANGED <<lockdir, out>>

\* A signal whose disposition is to terminate (SIGTERM, SIGHUP, SIGQUIT,
\* SIGKILL; the program installs no handler) reaches p inside a call: the
\* process is gone, the kernel closes its descriptors, which drops its
\* flocks; what the handle had buffered is lost.
Kill(p) ==
    /\ pc[p] \notin {"start", "done", "killed", "off"}
    /\ faults < MaxFaults
    /\ faults' = faults + 1
    /\ nlk' = [l \in DOMAIN nlk |-> IF nlk[l] = p THEN 0 ELSE nlk[l]]
    /\ flk' = [i \in DOMAIN flk |-> IF flk[i] = p THEN 0 ELSE flk[i]]
    /\ loc' = [loc EXCEPT ![p] = Locals0]
    /\ pc' = [pc EXCEPT ![p] = "killed"]
    /\ UNCHANGED <<parent, dent, data, lockfiles, args, todo, hist>>
    /\ UNCHANGED <<lockdir, out>>

(***************************************************************************)
(* Initial states and specifications.                                      *)
(***************************************************************************)
\* the arguments of one call
MkArgs(path, payload, unlink_first, unique, create, mkparents, line_ending, comment_marker, lead, trail) ==
    [path |-> path, bytes_payload |-> payload, unlink_first |-> unlink_first,
     unique_bytes |-> unique, create_if_missing |-> create,
     make_parents |-> mkparents, line_ending |-> line_ending,
     comment_marker |-> comment_marker,
     ignore_leading_whitespace |-> lead,
     ignore_trailing_whitespace |-> trail,
     direct |-> FALSE, blocking |-> TRUE, unlock_fails |-> FALSE,
     close_fails |-> FALSE, uid |-> "alice", flock_errno |-> "none"]

\* What the concurrent callers share, as the workers of the multi-process
\* tests do: <<bytes_payload, unique_bytes, line_ending, comment_marker,
\* ignore_leading_whitespace, ignore_trailing_whitespace>>.
\*   1 plain append of "a\n"             2 binary-mode unique "a\n"
\*   3 line-mode unique "a\n"            4 line-mode unique "a", trailing
\*                                         whitespace ignored
ConcProfiles ==
    { <<<<97, 10>>, FALSE, None, None, FALSE, FALSE>>,
      <<<<97, 10>>, TRUE, None, None, FALSE, FALSE>>,
      <<<<97, 10>>, TRUE, <<10>>, None, FALSE, FALSE>>,
      <<<<97>>, TRUE, <<10>>, None, FALSE, TRUE>> }

\* The file system at the start and the callers' creation flags:
\* <<parent exists, target exists, create_if_missing, make_parents>>, the
\* target empty.  make_parents matters only without the parent.
ConcFiles ==
    { <<TRUE, TRUE, TRUE, FALSE>>,
      <<TRUE, FALSE, FALSE, FALSE>>, <<TRUE, FALSE, TRUE, FALSE>>,
      <<FALSE, FALSE, TRUE, FALSE>>, <<FALSE, FALSE, TRUE, TRUE>> }

\* How one caller reaches the target: 1 by its name, 2 through the
\* symbolic link, 3 by its name with unlink_first.  unlink_first is used on
\* the target's own name only (on the link it would replace the link by a
\* file).
WayPath(w) == IF w = 2 THEN "s" ELSE "t"
WayUnlink(w) == w = 3

\* The caller that replaces the file writes a payload of its own, one byte
\* longer than the payload the appending callers share.
WayPayload(w, bytes) == IF WayUnlink(w) THEN <<98>> \o bytes ELSE bytes

InitProcs(active, ncalls) ==
    /\ pc = [p \in Procs |-> IF p \in active THEN "start" ELSE "off"]
    /\ loc = [p \in Procs |-> Locals0]
    /\ hist = [p \in Procs |-> Hist0]
    /\ todo = [p \in Procs |-> IF p \in active THEN ncalls ELSE 0]
    /\ out = [p \in Procs |-> Out0]

InitFiles(has_parent, has_target, content) ==
    /\ parent = has_parent
    /\ dent = [n \in Names |-> IF has_target /\ n = "t" THEN 1 ELSE 0]
    /\ data = IF has_target THEN <<content>> ELSE <<>>
    /\ flk = IF has_target THEN <<0>> ELSE <<>>
    /\ lockfiles = {}
    /\ nlk = [l \in LockFiles |-> 0]
    /\ lockdir = "alice"

\* NProcs processes, each making one call, on a target that is missing or
\* empty.  Processes are interchangeable: their ways are taken in order,
\* and one of them at most goes through the symbolic link.
Init ==
    /\ InitProcs(Procs, 1)
    /\ \E f \in ConcFiles, c \in ConcProfiles, w \in [Procs -> 1..3] :
        /\ \A p \in Procs : WayUnlink(w[p]) => c[2]
        /\ \A p, q \in Procs : p <= q => w[p] <= w[q]
        /\ \A p, q \in Procs : w[p] = 2 /\ w[q] = 2 => p = q
        /\ InitFiles(f[1], f[2], <<>>)
        /\ args = [p \in Procs |->
                     MkArgs(WayPath(w[p]), WayPayload(w[p], c[1]),
                            WayUnlink(w[p]), c[2], f[3], f[4], c[3], c[4],
                            c[5], c[6])]
    /\ faults = 0

Step(p) ==
    \/ Call(p)
    \/ Unlink(p) \/ UlMkdir(p) \/ UlCreate(p) \/ UlFlush(p) \/ UlFsync(p)
    \/ UlClose(p)
    \/ EbpMkdir(p) \/ LockOpen(p) \/ LockFlock(p)
    \/ LfhCreate(p) \/ LfhOpen(p) \/ LfhFlock(p)
    \/ Check(p) \/ Flush(p) \/ Fsync(p)
    \/ Unlock(p) \/ CloseFh(p) \/ CloseLock(p) \/ RetryMkdir(p)

Next == \E p \in Procs : Step(p) \/ Kill(p)

Spec == Init /\ [][Next]_vars

\* One process calling twice with the same arguments, no fault and no
\* signal: either on an existing target with any content of up to
\* MaxContent bytes, any payload of Payloads and any policy of Policies, or
\* on any target state of SeqFiles with a plain or a binary-mode unique
\* append of "a\n".
Alphabet == {97, 10, 32, 35}

Contents == UNION {[1..k -> Alphabet] : k \in 0..MaxContent}

Payloads ==
    { <<97>>, <<97, 10>>, <<10>>, <<10, 97>>, <<32, 97, 10>>, <<97, 32, 10>>,
      <<97, 35>>, <<35, 97>>, <<97, 97>>, <<32>> }

\* <<unique_bytes, line_ending, comment_marker, ignore_leading_whitespace,
\* ignore_trailing_whitespace>>
Policies ==
    {<<FALSE, None, None, FALSE, FALSE>>, <<TRUE, None, None, FALSE, FALSE>>}
    \cup {<<TRUE, d, None, l, t>> : d \in {<<10>>, <<35>>}, l \in BOOLEAN,
                                    t \in BOOLEAN}
    \cup {<<TRUE, <<10>>, <<35>>, l, t>> : l \in BOOLEAN, t \in BOOLEAN}
    \cup {<<TRUE, <<10>>, <<10>>, FALSE, FALSE>>,
          <<TRUE, <<10>>, <<35, 10>>, FALSE, FALSE>>}

\* <<parent exists, target exists, create_if_missing, make_parents>>
SeqFiles ==
    { <<TRUE, TRUE, FALSE, FALSE>>, <<TRUE, TRUE, TRUE, TRUE>>,
      <<TRUE, FALSE, FALSE, FALSE>>, <<TRUE, FALSE, TRUE, FALSE>>,
      <<TRUE, FALSE, TRUE, TRUE>>, <<FALSE, FALSE, TRUE, FALSE>>,
      <<FALSE, FALSE, TRUE, TRUE>>, <<TRUE, FALSE, FALSE, TRUE>> }

InitSeq ==
    /\ InitProcs({1}, 2)
    /\ faults = MaxFaults
    /\ \/ \E c \in Contents, b \in Payloads, y \in Policies :
            /\ InitFiles(TRUE, TRUE, c)
            /\ args = [p \in Procs |->
                         MkArgs("t", b, FALSE, y[1], FALSE, FALSE, y[2],
                                y[3], y[4], y[5])]
       \/ \E f \in SeqFiles, w \in 1..3, u \in BOOLEAN :
            /\ InitFiles(f[1], f[2], <<>>)
            /\ args = [p \in Procs |->
                         MkArgs(WayPath(w), <<97, 10>>, WayUnlink(w), u,
                                f[3], f[4], None, None, FALSE, FALSE)]

NextSeq == \E p \in Procs : Step(p)

SpecSeq == InitSeq /\ [][NextSeq]_vars

\* One process calling twice with the same arguments, with faults and
\* signals: the payload "a\n", any policy of Policies, any target state of
\* SeqFiles, the target empty or holding "a\n".
InitFault ==
    /\ InitProcs({1}, 2)
    /\ faults = 0
    /\ \E f \in SeqFiles, w \in 1..3, y \in Policies,
          c \in {<<>>, <<97, 10>>} :
            /\ c # <<>> => f[2]
            /\ InitFiles(f[1], f[2], c)
            /\ args = [p \in Procs |->
                         MkArgs(WayPath(w), <<97, 10>>, WayUnlink(w), y[1],
                                f[3], f[4], y[2], y[3], y[4], y[5])]

SpecFault == InitFault /\ [][Next]_vars

\* NProcs processes, each making one call of a plain or a line-mode unique
\* append of "a\n" without unlink_first, by the target's name or (one of
\* them at most) through the symbolic link; system calls may fail or be
\* interrupted by a signal, MaxFaults times in all.
InitEintr ==
    /\ InitProcs(Procs, 1)
    /\ \E f \in ConcFiles, u \in BOOLEAN, w \in [Procs -> 1..2] :
        /\ \A p, q \in Procs : p <= q => w[p] <= w[q]
        /\ \A p, q \in Procs : w[p] = 2 /\ w[q] = 2 => p = q
        /\ InitFiles(f[1], f[2], <<>>)
        /\ args = [p \in Procs |->
                     MkArgs(WayPath(w[p]), <<97, 10>>, FALSE, u, f[3], f[4],
                            IF u THEN <<10>> ELSE None, None, FALSE, FALSE)]
    /\ faults = 0

EintrStep(p) ==
    \/ Call(p) \/ EbpMkdir(p) \/ LockOpen(p) \/ LockFlock(p)
    \/ LfhCreate(p) \/ LfhOpen(p) \/ LfhFlock(p)
    \/ Check(p) \/ Flush(p) \/ Fsync(p)
    \/ Unlock(p) \/ CloseFh(p) \/ CloseLock(p) \/ RetryMkdir(p)
    \/ Eintr(p)

NextEintr == \E p \in Procs : EintrStep(p)

SpecEintr == InitEintr /\ [][NextEintr]_vars

\* One process making one call on an existing, empty target with any
\* combination of arguments: an empty or a non-empty payload, every
\* setting of the six flags, and for the line delimiter and the comment
\* marker None, the empty bytes or a value.  Only the call's first step,
\* up to its first system call, is taken.
OptBytes(b) == {None, <<>>, b}

InitArgs ==
    /\ InitProcs({1}, 1)
    /\ InitFiles(TRUE, TRUE, <<>>)
    /\ \E payload \in {<<>>, <<97, 10>>}, f \in [1..6 -> BOOLEAN],
          le \in OptBytes(<<10>>), cm \in OptBytes(<<35>>) \cup {<<10>>} :
        args = [p \in Procs |->
                  MkArgs("t", payload, f[1], f[2], f[3], f[4], le, cm, f[5],
                         f[6])]
    /\ faults = MaxFaults

NextArgs == \E p \in Procs : Call(p)

SpecArgs == InitArgs /\ [][NextArgs]_vars

\* NProcs processes, each making one binary-mode unique append, on every
\* target state of ConcFiles and by every way, with no failing system call
\* and no signal: the callers that append, create and replace the target
\* interfere with each other's attempts.  Every process that can take a
\* step (it is not waiting for a lock someone holds) takes it eventually.
InitRetry ==
    /\ InitProcs(Procs, 1)
    /\ \E f \in ConcFiles, w \in [Procs -> 1..3] :
        /\ \A p, q \in Procs : p <= q => w[p] <= w[q]
        /\ \A p, q \in Procs : w[p] = 2 /\ w[q] = 2 => p = q
        /\ InitFiles(f[1], f[2], <<>>)
        /\ args = [p \in Procs |->
                     MkArgs(WayPath(w[p]), WayPayload(w[p], <<97, 10>>),
                            WayUnlink(w[p]), TRUE, f[3], f[4], None, None,
                            FALSE, FALSE)]
    /\ faults = MaxFaults

SpecRetry ==
    InitRetry /\ [][NextSeq]_vars /\ \A p \in Procs : WF_vars(Step(p))

\* the arguments of one direct use of locked_file_handle, and what its
\* handle and its unlock call are made to do
MkLfhArgs(path, payload, blocking, create, unlock_fails, close_fails) ==
    [MkArgs(path, payload, FALSE, FALSE, create, FALSE, None, None, FALSE,
            FALSE)
     EXCEPT !.direct = TRUE, !.blocking = blocking,
            !.unlock_fails = unlock_fails, !.close_fails = close_fails]

\* The direct callers of the tests: <<blocking, create, unlock_fails,
\* close_fails>>.
\*   1 blocking                 2 non-blocking
\*   3 blocking, create         4 non-blocking, create
\*   5 the unlock fails         6 the close fails
\*   7 both fail                8 non-blocking, both fail
LfhProfiles ==
    << <<TRUE, FALSE, FALSE, FALSE>>, <<FALSE, FALSE, FALSE, FALSE>>,
       <<TRUE, TRUE, FALSE, FALSE>>, <<FALSE, TRUE, FALSE, FALSE>>,
       <<TRUE, FALSE, TRUE, FALSE>>, <<TRUE, FALSE, FALSE, TRUE>>,
       <<TRUE, FALSE, TRUE, TRUE>>, <<FALSE, FALSE, TRUE, TRUE>> >>

\* NProcs processes, each entering `with locked_file_handle(...)` once on
\* the same path and writing "a" in the body; the target exists, empty, or
\* is missing; the only failures are those of the profiles.  Processes are
\* interchangeable: their profiles are taken in order.
InitLfh ==
    /\ InitProcs(Procs, 1)
    /\ \E has_target \in BOOLEAN, w \in [Procs -> DOMAIN LfhProfiles] :
        /\ \A p, q \in Procs : p <= q => w[p] <= w[q]
        /\ InitFiles(TRUE, has_target, <<>>)
        /\ args = [p \in Procs |->
                     MkLfhArgs("t", <<97>>, LfhProfiles[w[p]][1],
                               LfhProfiles[w[p]][2], LfhProfiles[w[p]][3],
                               LfhProfiles[w[p]][4])]
    /\ faults = MaxFaults

LfhStep(p) ==
    \/ LfhCall(p) \/ LfhCreate(p) \/ LfhOpen(p) \/ LfhFlock(p)
    \/ LfhBody(p) \/ Unlock(p) \/ CloseFh(p)

NextLfh == \E p \in Procs : LfhStep(p)

SpecLfh == InitLfh /\ [][NextLfh]_vars

\* The same with the scheduling of an operating system: a process that can
\* take its next step (it is not waiting for a lock someone holds) takes
\* it eventually.
SpecLfhLive == SpecLfh /\ \A p \in Procs : WF_vars(LfhStep(p))

(***************************************************************************)
(* Properties.                                                             *)
(***************************************************************************)
\* p is in a call that does not use unlink_first
Appending(p) ==
    /\ pc[p] \notin {"start", "done", "killed", "off"}
    /\ ~args[p].unlink_first

\* p is inside the dedup-check-then-write section: at the uniqueness check,
\* at the write, or with bytes of its write still to reach the file
InSection(p) ==
    /\ Appending(p)
    /\ \/ pc[p] \in {"check", "flush", "fsync"}
       \/ loc[p].buf # <<>>

\* C1: of the callers without unlink_first whose paths resolve to the same
\* canonical path, through the symbolic link or not, at most one at a time
\* is inside the dedup-check-then-write section.
C1_MutualExclusion ==
    \A p, q \in Procs :
        (p # q /\ resolve(args[p].path) = resolve(args[q].path))
            => ~(InSection(p) /\ InSection(q))

\* C1 witness: one caller is inside the section while another, which
\* reaches the same file through the symbolic link, waits for the named
\* lock the first one holds.
C1_Witness ==
    \E p, q \in Procs :
        /\ args[p].path # args[q].path
        /\ InSection(p)
        /\ pc[q] = "lock_flock" /\ ~args[q].unlink_first
        /\ nlk[get_lockfile_path(args[q].path)] = p

\* every process has returned from its call; none failed or was killed
AllReturned == \A p \in Procs : pc[p] = "done" /\ loc[p].exc = ""

\* C2: when every process has uniquely appended the same payload to the
\* initially empty target (unique_bytes set, no unlink_first, no fault) and
\* has returned, the target holds exactly one copy of the payload.
C2_ExactlyOneCopy ==
    ( /\ AllReturned
      /\ faults = 0
      /\ \A p \in Procs : args[p].unique_bytes /\ ~args[p].unlink_first )
        => Content("t") = args[1].bytes_payload

\* C3: a second call with unique_bytes set and the same arguments, made
\* after the first one returned, leaves the target's content as the first
\* call left it.
C3_Idempotent ==
    \A p \in Procs :
        ( /\ pc[p] = "done" /\ loc[p].exc = ""
          /\ hist[p].prev # None
          /\ args[p].unique_bytes /\ ~args[p].unlink_first )
            => Content(args[p].path) = hist[p].prev

\* n copies of bytes, one after the other
RECURSIVE Copies(_, _)
Copies(bytes, n) == IF n = 0 THEN <<>> ELSE bytes \o Copies(bytes, n - 1)

\* every process calls by the target's own name with unique_bytes unset
\* and create_if_missing set
AllPlainCreating ==
    \A p \in Procs : /\ args[p].path = "t"
                      /\ ~args[p].unique_bytes
                      /\ args[p].create_if_missing

\* C4: when all the processes append with unique_bytes unset and
\* create_if_missing set to a target that was missing or empty, in a
\* directory that exists or that make_parents creates, and no fault or
\* signal occurs, then every call returns and the file holds one copy of
\* the payload per process, one after the other.
C4_NoLostUpdate ==
    ( /\ AllPlainCreating
      /\ parent
      /\ faults = 0
      /\ \A p \in Procs : pc[p] = "done" )
        => /\ AllReturned
           /\ \A p \in Procs : loc[p].ret = Len(args[p].bytes_payload)
           /\ Content("t") = Copies(args[1].bytes_payload, NProcs)

\* C4 witness: the target was missing, two callers raced to create it (both
\* went through the create step), and all have returned.
C4_Witness ==
    /\ AllPlainCreating
    /\ faults = 0
    /\ AllReturned
    /\ Len(data) = 1
    /\ lockfiles # {}
    /\ \E p, q \in Procs : p # q /\ hist[p].named_acq = 2
                                 /\ hist[q].named_acq = 2

\* the bytes a path names, none when it names no file
Bytes(path) == IF Content(path) = None THEN <<>> ELSE Content(path)

\* C5: a step of a call without unlink_first either leaves the target's
\* content as it is or appends the whole payload to its end, the latter at
\* most once in a call; when the call returns, it returns len(payload) if
\* it appended and 0 if it did not.
C5_WriteOutcome ==
    [][\A p \in Procs :
         Appending(p) =>
            /\ \/ /\ Bytes(args[p].path)' = Bytes(args[p].path)
                  /\ hist'[p].flushed = hist[p].flushed
               \/ /\ Bytes(args[p].path)' =
                        Bytes(args[p].path) \o args[p].bytes_payload
                  /\ hist[p].flushed = 0 /\ hist'[p].flushed = 1
            /\ (pc'[p] = "done" /\ loc'[p].exc = "") =>
                  \/ loc'[p].ret = Len(args[p].bytes_payload)
                        /\ hist'[p].flushed = 1
                  \/ loc'[p].ret = 0 /\ hist'[p].flushed = 0]_vars

\* C5 witness: a first call has returned len(payload) after appending to
\* content of MaxContent bytes.
C5_Witness ==
    \E p \in Procs :
        /\ pc[p] = "done" /\ loc[p].exc = "" /\ todo[p] = 1
        /\ ~args[p].unlink_first
        /\ loc[p].ret = Len(args[p].bytes_payload)
        /\ Len(Bytes(args[p].path)) = MaxContent + Len(args[p].bytes_payload)

\* p's call is a unique append in line mode, in binary mode
LineModeCall(p) ==
    Appending(p) /\ args[p].unique_bytes /\ args[p].line_ending # None

BinaryModeCall(p) ==
    Appending(p) /\ args[p].unique_bytes /\ args[p].line_ending = None

\* p's uniqueness check has found the payload: the write is skipped and 0
\* is about to be returned
Skipped(p) ==
    pc[p] = "unlock" /\ loc[p].ret = 0 /\ loc[p].exc = ""
        /\ hist[p].flushed = 0

\* p's uniqueness check has not found the payload: it is about to be
\* written at the end of the file
Appended(p) == pc[p] = "flush"

\* some segment the line splitter produces over the whole content of the
\* file p has open, with p's comment marker and whitespace options, is
\* equal to p's payload
SegmentMatch(p) ==
    LET segs == splitlines_bytes(data[loc[p].fh], args[p].line_ending,
                                 args[p].comment_marker,
                                 args[p].ignore_leading_whitespace,
                                 args[p].ignore_trailing_whitespace)
    IN  \E k \in 1..Len(segs) : segs[k] = args[p].bytes_payload

\* p's payload is a whole line of the file p has open: it occurs at the
\* start of the file or right after a delimiter, and ends with the
\* delimiter or at the end of the file
WholeLine(p) ==
    LET c == data[loc[p].fh]
        b == args[p].bytes_payload
        d == args[p].line_ending
    IN  \E i \in 0..Len(c) :
            /\ OccursAt(c, b, i)
            /\ i = 0 \/ (i >= Len(d) /\ OccursAt(c, d, i - Len(d)))
            /\ endswith(b, d) \/ i + Len(b) = Len(c)

\* p uses neither a comment marker nor a whitespace option
NoOptions(p) ==
    /\ args[p].comment_marker = None
    /\ ~args[p].ignore_leading_whitespace
    /\ ~args[p].ignore_trailing_whitespace

\* C6, as stated: a unique append in line mode skips the write if and only
\* if a segment of the line splitter over the whole file equals the
\* payload, and, whatever the options, a payload that is not a whole line
\* of the file (a part of a line, or a line without its delimiter) is
\* appended.
C6_AsStated ==
    \A p \in Procs :
        LineModeCall(p) =>
            /\ Appended(p) => ~SegmentMatch(p)
            /\ Skipped(p) => SegmentMatch(p) /\ WholeLine(p)

\* C6, amended: a unique append in line mode skips the write if and only
\* if a segment of the line splitter over the whole file equals the
\* payload; without comment marker and whitespace options, a payload that
\* is not a whole line of the file is appended.
C6_LineMode ==
    \A p \in Procs :
        LineModeCall(p) =>
            /\ Appended(p) => ~SegmentMatch(p)
            /\ Skipped(p) => SegmentMatch(p)
            /\ (Skipped(p) /\ NoOptions(p)) => WholeLine(p)

\* C6 witness: a first call in line mode, without options, skips a payload
\* that is the second line of the file.
C6_Witness ==
    \E p \in Procs :
        /\ LineModeCall(p) /\ NoOptions(p) /\ Skipped(p) /\ todo[p] = 1
        /\ Len(data[loc[p].fh]) > Len(args[p].bytes_payload)
        /\ ~OccursAt(data[loc[p].fh], args[p].bytes_payload, 0)

HoldsNothing(p) ==
    /\ \A l \in LockFiles : nlk[l] # p
    /\ \A i \in DOMAIN flk : flk[i] # p
    /\ ~loc[p].lock_fd
    /\ loc[p].fh = 0

\* C8: when a call has returned or raised, the caller holds neither the
\* named lock nor the advisory lock of the target and has released each
\* lock it acquired exactly once; at no time has it released more often
\* than it acquired.
C8_LocksReleased ==
    \A p \in Procs :
        /\ hist[p].named_rel <= hist[p].named_acq
        /\ hist[p].adv_rel <= hist[p].adv_acq
        /\ pc[p] = "done" =>
              /\ HoldsNothing(p)
              /\ hist[p].named_rel = hist[p].named_acq
              /\ hist[p].adv_rel = hist[p].adv_acq

\* C8 witness: a call that had acquired both locks has raised OSError.
C8_Witness ==
    \E p \in Procs :
        /\ pc[p] = "done" /\ loc[p].exc = "OSError"
        /\ hist[p].named_acq = 1 /\ hist[p].adv_acq = 1

\* p's step changes the target: its directory entry or the content of a
\* file
Mutates(p) == pc'[p] # pc[p] /\ (dent' # dent \/ data' # data)

\* p holds the named lock of its path
HoldsNamed(p) == nlk[get_lockfile_path(args[p].path)] = p

\* p holds the advisory lock on the file it has open
HoldsAdvisory(p) == loc[p].fh # 0 /\ flk[loc[p].fh] = p

\* C9: a step that creates, unlinks or writes the target is taken by a
\* caller that holds the named lock of the path and the advisory lock on
\* the target (for the step that creates the target, which has no lock to
\* hold yet, the named lock), on every path including unlink_first.
C9_MutationUnderBothLocks ==
    [][\A p \in Procs :
         Mutates(p) =>
            /\ HoldsNamed(p)
            /\ HoldsAdvisory(p) \/ dent[resolve(args[p].path)] = 0]_vars

\* the payloads of the callers
AllPayloads == {args[p].bytes_payload : p \in Procs}

\* content is a concatenation of whole payloads
RECURSIVE IsConcat(_)
IsConcat(content) ==
    \/ content = <<>>
    \/ \E b \in AllPayloads :
          /\ OccursAt(content, b, 0)
          /\ IsConcat(SliceFrom(content, Len(b)))

\* no caller holds the named lock of the target or the advisory lock on it
TargetUnlocked ==
    /\ nlk[get_lockfile_path("t")] = 0
    /\ dent["t"] # 0 => flk[dent["t"]] = 0

\* C10: whenever no caller holds the target's lock, also after callers
\* were killed, the target's content is a concatenation of whole payloads,
\* and it is empty as long as no caller has completed a write.
C10_WholePayloads ==
    TargetUnlocked =>
        /\ IsConcat(Bytes("t"))
        /\ (\A p \in Procs : hist[p].flushed = 0) => Bytes("t") = <<>>

(***************************************************************************)
(* C11: the lock survives no failed close.                                 *)
(***************************************************************************)
\* p has left its with block and the close of its handle failed
CloseFailed(p) == pc[p] = "done" /\ "close" \in hist[p].warned

\* p has left its with block and its unlock call failed
UnlockFailed(p) == pc[p] = "done" /\ "unlock" \in hist[p].warned

\* no process is one whose unlock call and close both fail
NoDoubleFailure ==
    \A r \in Procs : ~(args[r].unlock_fails /\ args[r].close_fails)

C12_ClosedAndReleased ==
    \A p \in Procs :
        pc[p] = "done" =>
            /\ loc[p].fh = 0
            /\ \A i \in DOMAIN flk : flk[i] # p

(***************************************************************************)
(* C13: failures of the cleanup are warned about, never raised.            *)
(***************************************************************************)
\* the step is p's LOCK_UN call in the finally block
UnlockStep(p) == pc[p] = "unlock" /\ pc'[p] = "close_fh"

\* the step is p's fh.close() in the finally block
CloseStep(p) == pc[p] = "close_fh" /\ pc'[p] \notin {"close_fh", "killed"}

\* the unlock step left the lock held
UnlockStepFailed(p) == flk'[loc[p].fh] = p

\* the close step left the descriptor open or dropped what was buffered
CloseStepFailed(p) ==
    \/ loc'[p].fh # 0
    \/ loc[p].buf # <<>> /\ hist'[p].flushed = hist[p].flushed

\* C13: in the cleanup of locked_file_handle a failing unlock and a failing
\* close each print their warning (and only a failure does), neither sets
\* an exception nor changes the result of the body, and control returns to
\* the caller: a body that completed normally is followed by a normal
\* exit with its result.
C13_CleanupNeverRaises ==
    [][\A p \in Procs :
        /\ UnlockStep(p) =>
            /\ ("unlock" \in hist'[p].warned) <=> UnlockStepFailed(p)
            /\ loc'[p] = loc[p]
        /\ CloseStep(p) =>
            /\ ("close" \in hist'[p].warned) <=> CloseStepFailed(p)
            /\ hist'[p].warned \ {"close"} = hist[p].warned
            /\ loc'[p].exc = loc[p].exc /\ loc'[p].ret = loc[p].ret
            /\ pc'[p] = lfh_exit(p)
            /\ args[p].direct /\ loc[p].exc = "" =>
                loc'[p].exc = "" /\ loc'[p].ret = Len(args[p].bytes_payload)
      ]_vars

\* the body completed, the unlock and the close both failed, and the
\* caller is back with the body's result, two warnings and no exception
C13_Witness ==
    \E p \in Procs :
        /\ pc[p] = "done" /\ hist[p].warned = {"unlock", "close"}
        /\ loc[p].exc = "" /\ loc[p].ret = Len(args[p].bytes_payload)
        /\ hist[p].adv_acq = 1

(***************************************************************************)
(* C14: non-blocking acquisition.                                          *)
(***************************************************************************)
\* p is in the flock call of a locked_file_handle entered with
\* blocking=False
NonBlockingAtFlock(p) == pc[p] = "lfh_flock" /\ ~args[p].blocking

\* C14: a caller with blocking=False never waits in its flock call; when
\* the advisory lock of the target is held, the call raises BlockingIOError
\* with the handle closed, the body not entered, and every lock and every
\* file's content as they were; when the lock is free the call takes it and
\* the body is entered.
C14_NonBlocking ==
    /\ [](\A p \in Procs : NonBlockingAtFlock(p) => ENABLED LfhFlock(p))
    /\ [][\A p \in Procs :
            NonBlockingAtFlock(p) /\ pc'[p] # "lfh_flock" =>
                IF flk[loc[p].fh] # 0
                THEN /\ loc'[p].exc = "BlockingIOError" /\ loc'[p].fh = 0
                     /\ pc'[p] = "done" /\ hist'[p] = hist[p]
                     /\ flk' = flk /\ data' = data /\ dent' = dent
                ELSE /\ pc'[p] = "body" /\ flk'[loc[p].fh] = p
                     /\ loc'[p] = loc[p] /\ data' = data
         ]_vars

\* a caller with blocking=False is back with BlockingIOError and a closed
\* handle while the holder of the lock is still in its with block, the
\* content what it was
C14_Witness ==
    \E p, q \in Procs :
        /\ ~args[q].blocking /\ pc[q] = "done"
        /\ loc[q].exc = "BlockingIOError" /\ loc[q].fh = 0
        /\ hist[q].adv_acq = 0
        /\ pc[p] \in {"body", "unlock"} /\ flk[loc[p].fh] = p
        /\ data[loc[p].fh] = <<>>

(***************************************************************************)
(* C15: interrupted system calls.                                          *)
(***************************************************************************)
\* the step is one in which a signal interrupted a system call of p
Interrupted(p) == hist'[p].eintr > hist[p].eintr

\* C15: a system call interrupted by a signal (the open of the lock file,
\* the flock of the named lock, the open of the target, the flock of the
\* advisory lock, fsync) is made again from the state it was made in: the
\* caller's position and locals, the files and the locks are unchanged; no
\* call ever ends with InterruptedError; and a caller past the flock of the
\* named lock holds it, and one at the check or the write holds the
\* advisory lock too.
C15_EintrAbsorbed ==
    /\ [][\A p \in Procs :
            Interrupted(p) =>
                pc'[p] = pc[p] /\ loc'[p] = loc[p] /\ fsvars' = fsvars
         ]_vars
    /\ [](\A p \in Procs :
            /\ loc[p].exc # "InterruptedError"
            /\ pc[p] \in {"lfh_create", "lfh_open", "lfh_flock", "check",
                          "flush", "fsync"} => HoldsNamed(p)
            /\ pc[p] \in {"check", "flush", "fsync"} => HoldsAdvisory(p))

\* a call in which a signal interrupted a system call has taken the named
\* lock once and returned the length of its payload, after the call of
\* another process: the file holds both payloads
C15_Witness ==
    \E p, q \in Procs :
        /\ p # q /\ hist[p].eintr > 0 /\ hist[p].named_acq = 1
        /\ pc[p] = "done" /\ loc[p].exc = ""
        /\ loc[p].ret = Len(args[p].bytes_payload)
        /\ pc[q] = "done" /\ loc[q].exc = ""
        /\ ~args[p].unique_bytes
        /\ Content("t") = args[q].bytes_payload \o args[p].bytes_payload

(***************************************************************************)
(* C16: configuration errors and I/O.                                      *)
(***************************************************************************)
\* C16: when a call of append_bytes_to_file has ended with a configuration
\* error (ValueError), it has taken no lock and written nothing, and the
\* lock file of its path does not exist.
C16_ConfigErrorBeforeIo ==
    \A p \in Procs :
        (pc[p] = "done" /\ loc[p].exc = "ValueError") =>
            /\ hist[p].named_acq = 0 /\ hist[p].adv_acq = 0
            /\ hist[p].flushed = 0
            /\ get_lockfile_path(args[p].path) \notin lockfiles

(***************************************************************************)
(* C17: what validation rejects.                                           *)
(***************************************************************************)
\* p's call has taken its first step
Called(p) == pc[p] \notin {"start", "off"}

\* p's call was rejected in its first step
Rejected(p) == pc[p] = "done" /\ loc[p].exc = "ValueError"

\* a violates one of the rules the claim lists: empty payload;
\* unlink_first without unique_bytes; make_parents without
\* create_if_missing; a line delimiter, a comment marker or a whitespace
\* option without unique_bytes
ViolatesListedRule(a) ==
    \/ a.bytes_payload = <<>>
    \/ a.unlink_first /\ ~a.unique_bytes
    \/ a.make_parents /\ ~a.create_if_missing
    \/ ~a.unique_bytes /\ \/ a.line_ending # None
                          \/ a.comment_marker # None
                          \/ a.ignore_leading_whitespace
                          \/ a.ignore_trailing_whitespace

\* a line delimiter or a comment marker that is set and empty
EmptyWhenSet(a) == a.line_ending = <<>> \/ a.comment_marker = <<>>

\* without unlink_first, a comment marker equal to the line delimiter
\* (checked by ensure_bytes_present after its own validation)
MarkerIsDelimiter(a) ==
    ~a.unlink_first /\ a.comment_marker # None
        /\ a.comment_marker = a.line_ending

C18_BinaryModeOptionsRejected ==
    \A p \in Procs :
        (/\ Called(p)
         /\ args[p].unique_bytes /\ args[p].line_ending = None
         /\ \/ args[p].comment_marker # None
            \/ args[p].ignore_leading_whitespace
            \/ args[p].ignore_trailing_whitespace)
        => Rejected(p)

(***************************************************************************)
(* C19: creation.                                                          *)
(***************************************************************************)
\* p's arguments hold no configuration error
ValidConfiguration(p) ==
    /\ ~validate_args(args[p], TRUE)
    /\ args[p].line_ending # None =>
        ~splitlines_bytes_error(args[p].line_ending, args[p].comment_marker)

\* p's first call, without unlink_first, is over
FirstCallOver(p) ==
    /\ pc[p] = "done" /\ todo[p] = 1
    /\ ~args[p].unlink_first /\ ValidConfiguration(p)

\* the target exists, or it may be created: create_if_missing, and the
\* parent directory exists or make_parents
MayOpen(p) ==
    \/ Content(args[p].path) # None
    \/ /\ args[p].create_if_missing
       /\ parent \/ args[p].make_parents

\* C19: a call without unlink_first, alone and with no failing system
\* call, either returns, the target then existing, or raises
\* FileNotFoundError with the target still missing and neither
\* create_if_missing set nor, if it is set, the parent directory there or
\* make_parents set: the call fails only when the target neither existed
\* nor could be created, and then leaves the target and a missing parent
\* directory missing.
C19_CreationOutcome ==
    \A p \in Procs :
        FirstCallOver(p) =>
            \/ loc[p].exc = "" /\ loc[p].ret >= 0
                /\ Content(args[p].path) # None
            \/ loc[p].exc = "FileNotFoundError" /\ ~MayOpen(p)

(***************************************************************************)
(* C20: the retry sequence.                                                *)
(***************************************************************************)
\* p's step is the end of an attempt that failed with FileNotFoundError
AttemptFailed(p) ==
    /\ pc[p] = "close_lock" /\ pc'[p] # "close_lock"
    /\ loc[p].exc = "FileNotFoundError"

\* C20: a call makes at most three attempts, each taking the named lock at
\* most once; the first opens without creating, the later ones create;
\* the parent directory is made between the second and the third only
\* with make_parents; an attempt follows only an attempt that failed with
\* FileNotFoundError, and when the last attempt fails with it (the first
\* without create_if_missing, the third otherwise) the call ends with that
\* error; and every call ends, whatever the other processes do.
C20_BoundedRetry ==
    /\ [](\A p \in Procs :
            /\ loc[p].attempt \in 0..3 /\ hist[p].named_acq <= 3
            /\ pc[p] \in {"lfh_create", "ebp_mkdir"} => loc[p].attempt >= 2
            /\ pc[p] = "retry_mkdir" =>
                loc[p].attempt = 2 /\ args[p].make_parents)
    /\ [][\A p \in Procs :
            /\ (loc[p].attempt > 0 /\ loc'[p].attempt > loc[p].attempt) =>
                /\ loc'[p].attempt = loc[p].attempt + 1
                /\ \/ AttemptFailed(p)
                   \/ pc[p] = "retry_mkdir"
            /\ (AttemptFailed(p) /\ \/ loc[p].attempt = 3
                                    \/ ~args[p].create_if_missing) =>
                /\ pc'[p] = "done"
                /\ loc'[p].exc = "FileNotFoundError"
         ]_vars
    /\ \A p \in Procs : (pc[p] \notin {"start", "off", "done"}) ~> (pc[p] = "done")

\* a call has ended with the FileNotFoundError of its third attempt while
\* another process was still inside its own call
C20_Witness ==
    \E p, q \in Procs :
        /\ pc[p] = "done" /\ loc[p].exc = "FileNotFoundError"
        /\ hist[p].named_acq = 3
        /\ pc[q] \notin {"start", "off", "done"}

(***************************************************************************)
(* The unlink_first path on its own.                                       *)
(***************************************************************************)
\* One process calling twice with unlink_first, with faults and signals:
\* the target missing or holding any content of up to MaxContent bytes,
\* the parent directory present or not, any payload of Payloads, in binary
\* or line mode (or without unique_bytes, which validate_args rejects).
\* <<unique_bytes, line_ending>>
UlPolicies == {<<TRUE, None>>, <<TRUE, <<10>>>>, <<FALSE, None>>}

InitUl ==
    /\ InitProcs({1}, 2)
    /\ faults = 0
    /\ \E f \in SeqFiles, c \in Contents, b \in Payloads, y \in UlPolicies :
        /\ c # <<>> => f[2]
        /\ InitFiles(f[1], f[2], c)
        /\ args = [p \in Procs |->
                     MkArgs("t", b, TRUE, y[1], f[3], f[4], y[2], None,
                            FALSE, FALSE)]

UlStep(p) ==
    \/ Call(p)
    \/ Unlink(p) \/ UlMkdir(p) \/ UlCreate(p) \/ UlFlush(p) \/ UlFsync(p)
    \/ UlClose(p)

NextUl == \E p \in Procs : UlStep(p) \/ Kill(p)

SpecUl == InitUl /\ [][NextUl]_vars

\* p's call with unlink_first has returned
UlReturned(p) ==
    pc[p] = "done" /\ args[p].unlink_first /\ loc[p].exc = ""

\* C21: a call with unlink_first that returns, returns len(payload), and
\* the target then contains exactly the payload, whatever it contained
\* before the call and whether or not it existed.
C21_UnlinkFirstReplaces ==
    \A p \in Procs :
        UlReturned(p) =>
            /\ loc[p].ret = Len(args[p].bytes_payload)
            /\ Content(args[p].path) = args[p].bytes_payload

\* C21 witness: a first call with unlink_first has returned on a target
\* that held MaxContent bytes other than the payload's: the old file is
\* unlinked, the path names a new file holding the payload.
C21_Witness ==
    \E p \in Procs :
        /\ UlReturned(p) /\ todo[p] = 1
        /\ Len(data) = 2 /\ dent[args[p].path] = 2
        /\ Len(data[1]) = MaxContent
        /\ data[1] # Slice(args[p].bytes_payload, 0, MaxContent)
        /\ Content(args[p].path) = args[p].bytes_payload

\* p takes the exclusive-create step of the unlink_first path while the
\* path names a file again: another writer created it after p's unlink
RaceStep(p) ==
    /\ pc[p] = "ul_create" /\ pc'[p] \notin {"ul_create", "killed"}
    /\ parent /\ dent[args[p].path] # 0

\* p's call has ended with the error of the creation race
RaceReported(p) == pc[p] = "done" /\ loc[p].exc = "FileExistsError"

\* C22: when the target exists again at the exclusive create of an
\* unlink_first call, that step ends the call with FileExistsError (no
\* retry, no handle open, nothing written) and leaves the recreated file
\* and its content as they are; FileExistsError is raised by no other
\* path, and a call that raised it has written nothing.
C22_RaceReported ==
    /\ [][\A p \in Procs :
            RaceStep(p) =>
                /\ pc'[p] = "done" /\ loc'[p].exc = "FileExistsError"
                /\ loc'[p].fh = 0 /\ hist'[p] = hist[p]
                /\ dent' = dent /\ data' = data]_vars
    /\ [](\A p \in Procs :
            RaceReported(p) =>
                args[p].unlink_first /\ hist[p].flushed = 0)

\* C22 witness: a call with unlink_first has ended with the race error on
\* a file that another caller created and wrote its payload to.
C22_Witness ==
    \E p, q \in Procs :
        /\ p # q /\ RaceReported(p)
        /\ ~args[q].unlink_first /\ hist[q].flushed = 1
        /\ Content(args[p].path) = args[q].bytes_payload

\* a step in which bytes written by p reach the target
WriteStep(p) == hist'[p].flushed > hist[p].flushed

\* a step in which p's advisory lock on the target, p's named lock, is
\* released
AdvReleaseStep(p) == hist'[p].adv_rel > hist[p].adv_rel
NamedReleaseStep(p) == hist'[p].named_rel > hist[p].named_rel

\* C23: in a call without unlink_first, bytes reach the target only while
\* the caller still holds the advisory lock and the named lock; when the
\* advisory lock of a call that has written is released, nothing is left
\* in the handle's buffer and the fsync has returned (or has failed, and
\* the call is raising); the advisory lock is released while the named
\* lock is held, and the named lock is released with the advisory lock no
\* longer held.
C23_DurabilityOrdering ==
    [][\A p \in Procs :
         Appending(p) =>
            /\ WriteStep(p) => HoldsAdvisory(p) /\ HoldsNamed(p)
            /\ (AdvReleaseStep(p) /\ hist[p].flushed > 0) =>
                  /\ loc[p].buf = <<>>
                  /\ \/ loc[p].ret = Len(args[p].bytes_payload)
                     \/ loc[p].exc # ""
            /\ AdvReleaseStep(p) => HoldsNamed(p) /\ nlk' = nlk
            /\ NamedReleaseStep(p) => ~HoldsAdvisory(p)]_vars

(***************************************************************************)
(* Callers of different users sharing LOCK_DIR.                            *)
(***************************************************************************)
\* The module is imported by p's process: LOCK_DIR is made.
Import(p) ==
    /\ pc[p] = "import"
    /\ lockdir' = lock_dir_mkdir(args[p].uid)
    /\ pc' = [pc EXCEPT ![p] = "start"]
    /\ UNCHANGED <<fsvars, args, loc, todo, hist, faults, out>>

\* NProcs processes of any users, LOCK_DIR not made yet; each imports the
\* module and makes one plain append of "a\n" to an existing target that
\* every user may write, with no fault.
InitPerm ==
    /\ pc = [p \in Procs |-> "import"]
    /\ loc = [p \in Procs |-> Locals0]
    /\ hist = [p \in Procs |-> Hist0]
    /\ todo = [p \in Procs |-> 1]
    /\ out = [p \in Procs |-> Out0]
    /\ parent = TRUE
    /\ dent = [n \in Names |-> IF n = "t" THEN 1 ELSE 0]
    /\ data = <<<<>>>>
    /\ flk = <<0>>
    /\ lockfiles = {}
    /\ nlk = [l \in LockFiles |-> 0]
    /\ lockdir = "none"
    /\ \E u \in [Procs -> Users] :
        args = [p \in Procs |->
                  [MkArgs("t", <<97, 10>>, FALSE, FALSE, FALSE, FALSE, None,
                          None, FALSE, FALSE) EXCEPT !.uid = u[p]]]
    /\ faults = MaxFaults

PermStep(p) ==
    \/ Import(p) \/ Call(p)
    \/ LockOpen(p) \/ LockFlock(p) \/ LfhOpen(p) \/ LfhFlock(p)
    \/ Check(p) \/ Flush(p) \/ Fsync(p)
    \/ Unlock(p) \/ CloseFh(p) \/ CloseLock(p)

NextPerm == \E p \in Procs : PermStep(p)

SpecPerm == InitPerm /\ [][NextPerm]_vars

\* C24: whichever user made LOCK_DIR, no call of a user who may write the
\* target fails on the lock: none ends with PermissionError.
C24_UsersCoordinate ==
    \A p \in Procs : pc[p] = "done" => loc[p].exc # "PermissionError"

(***************************************************************************)
(* locked_file_handle on a file system whose flock fails.                  *)
(***************************************************************************)
\* What flock does for a caller: it works ("none"), or it fails with the
\* errno, as the patched fcntl.flock of tests/test_locking.py:58-71.
FlockErrnos == {"none", "ENOLCK", "EIO"}

\* NProcs processes, each entering `with locked_file_handle(...)` once on
\* the same path, blocking or not, creating or not, each with a flock that
\* works or fails with ENOLCK or with another error; the target exists,
\* empty, or is missing.
InitEnolck ==
    /\ InitProcs(Procs, 1)
    /\ \E has_target \in BOOLEAN, e \in [Procs -> FlockErrnos],
          b \in [Procs -> BOOLEAN], c \in BOOLEAN :
        /\ InitFiles(TRUE, has_target, <<>>)
        /\ args = [p \in Procs |->
                     [MkLfhArgs("t", <<97>>, b[p], c, FALSE, FALSE)
                      EXCEPT !.flock_errno = e[p]]]
    /\ faults = MaxFaults

SpecEnolck == InitEnolck /\ [][NextLfh]_vars

\* p takes the flock step of locked_file_handle on a file system that
\* answers ENOLCK
EnolckStep(p) ==
    /\ pc[p] = "lfh_flock" /\ pc'[p] # "lfh_flock"
    /\ args[p].flock_errno = "ENOLCK"

\* C25: a flock that fails with ENOLCK ends locked_file_handle in that
\* step with the handle closed, no lock taken and the error that names
\* the cause; the body of the with block is never entered; and the error
\* a caller gets names the cause exactly when the errno was ENOLCK.
C25_Enolck ==
    /\ [][\A p \in Procs :
            EnolckStep(p) =>
                /\ pc'[p] = "done" /\ loc'[p].fh = 0
                /\ loc'[p].exc = "OSError: Locking unavailable (ENOLCK)"
                /\ flk' = flk /\ data' = data]_vars
    /\ [](\A p \in Procs :
            /\ args[p].flock_errno = "ENOLCK" =>
                  pc[p] # "body" /\ hist[p].adv_acq = 0
            /\ pc[p] = "done" =>
                  (loc[p].exc = "OSError: Locking unavailable (ENOLCK)"
                     <=> /\ args[p].flock_errno = "ENOLCK"
                         /\ loc[p].exc # "FileNotFoundError"))

\* C25 witness: one caller got the ENOLCK error and another, whose flock
\* failed otherwise, a plain OSError, on the same existing file.
C25_Witness ==
    \E p, q \in Procs :
        /\ pc[p] = "done" /\ pc[q] = "done"
        /\ args[p].flock_errno = "ENOLCK" /\ args[q].flock_errno = "EIO"
        /\ loc[p].exc = "OSError: Locking unavailable (ENOLCK)"
        /\ loc[q].exc = "OSError"
        /\ loc[p].fh = 0 /\ Content("t") = <<>>

(***************************************************************************)
(* splitlines_bytes called on its own.                                     *)
(***************************************************************************)
\* The longest input of a call of splitlines_bytes or
\* find_bytes_offset_in_stream.
MaxInput == 3

\* 'a', LF, CR, space, '#'
SplitAlphabet == {97, 10, 13, 32, 35}

SplitInputs == UNION {[1..k -> SplitAlphabet] : k \in 0..MaxInput}

\* Delimiters: empty, LF, '#', space, CRLF, "aa" and "##" (which overlap
\* themselves).
SplitDelims ==
    {<<>>, <<10>>, <<35>>, <<32>>, <<13, 10>>, <<97, 97>>, <<35, 35>>}

\* Comment markers: none, empty, '#', "##", "#\n", LF, "a#".
SplitMarkers ==
    {None, <<>>, <<35>>, <<35, 35>>, <<35, 10>>, <<10>>, <<97, 35>>}

\* the chunk sizes that differ in effect on inputs of up to MaxInput bytes
ChunkSizes == 1..(MaxInput + 1)

\* One process that calls splitlines_bytes on the bytes of the target and
\* then on the target opened as a stream, with the same options.
InitSplit ==
    /\ pc = [p \in Procs |-> IF p = 1 THEN "split_bytes" ELSE "off"]
    /\ loc = [p \in Procs |-> Locals0]
    /\ hist = [p \in Procs |-> Hist0]
    /\ todo = [p \in Procs |-> 0]
    /\ out = [p \in Procs |-> Out0]
    /\ \E c \in SplitInputs, d \in SplitDelims, m \in SplitMarkers,
          sl \in BOOLEAN, st \in BOOLEAN :
        /\ InitFiles(TRUE, TRUE, c)
        /\ args = [p \in Procs |->
                     MkArgs("t", <<>>, FALSE, FALSE, FALSE, FALSE, d, m, sl,
                            st)]
    /\ faults = MaxFaults

\* list(splitlines_bytes(data, delim=..., comment_marker=..., ...)) with
\* data the target's bytes
SplitBytes(p) ==
    /\ pc[p] = "split_bytes"
    /\ LET a == args[p]
           e == splitlines_bytes_error(a.line_ending, a.comment_marker)
       IN  out' = [out EXCEPT
                     ![p].err = e,
                     ![p].segs =
                        IF e THEN <<>>
                        ELSE splitlines_bytes(data[1], a.line_ending,
                                 a.comment_marker,
                                 a.ignore_leading_whitespace,
                                 a.ignore_trailing_whitespace)]
    /\ pc' = [pc EXCEPT ![p] = "split_stream"]
    /\ UNCHANGED <<fsvars, lockdir, args, loc, todo, hist, faults>>

\* list(splitlines_bytes(fh, ..., chunk_size=chunk)) with fh the target
\* opened for reading, at offset 0
SplitStream(p) ==
    /\ pc[p] = "split_stream"
    /\ \E chunk \in ChunkSizes :
        LET a == args[p]
            e == splitlines_bytes_error(a.line_ending, a.comment_marker)
        IN  out' = [out EXCEPT
                      ![p].chunk = chunk,
                      ![p].stream_err = e,
                      ![p].stream =
                         IF e THEN <<>>
                         ELSE splitlines_stream(data[1], 0, a.line_ending,
                                  a.comment_marker,
                                  a.ignore_leading_whitespace,
                                  a.ignore_trailing_whitespace, chunk)]
    /\ pc' = [pc EXCEPT ![p] = "split_done"]
    /\ UNCHANGED <<fsvars, lockdir, args, loc, todo, hist, faults>>

NextSplit == \E p \in Procs : SplitBytes(p) \/ SplitStream(p)

SpecSplit == InitSplit /\ [][NextSplit]_vars

\* the concatenation of the byte strings of a sequence
RECURSIVE Concat(_)
Concat(segs) == IF segs = <<>> THEN <<>> ELSE Head(segs) \o Concat(Tail(segs))

\* p's call had no comment marker and no stripping
PlainSplit(p) ==
    /\ args[p].comment_marker = None
    /\ ~args[p].ignore_leading_whitespace
    /\ ~args[p].ignore_trailing_whitespace

\* C26: with a non-empty delimiter, no comment marker and no stripping,
\* the segments split yields, from bytes and from a stream of any chunk
\* size, concatenate to the input, so their lengths add up to its length.
C26_RoundTrip ==
    \A p \in Procs :
        (PlainSplit(p) /\ args[p].line_ending # <<>>) =>
            /\ pc[p] \in {"split_stream", "split_done"} =>
                  /\ ~out[p].err
                  /\ Concat(out[p].segs) = data[1]
                  /\ Len(Concat(out[p].segs)) = Len(data[1])
            /\ pc[p] = "split_done" =>
                  /\ ~out[p].stream_err
                  /\ Concat(out[p].stream) = data[1]

\* C26 witness: an input of MaxInput bytes was split on a delimiter of two
\* equal bytes that occurs overlapping itself, into more than one segment.
C26_Witness ==
    \E p \in Procs :
        /\ pc[p] = "split_done" /\ PlainSplit(p)
        /\ Len(data[1]) = MaxInput /\ Len(out[p].segs) > 1
        /\ Len(args[p].line_ending) = 2
        /\ OccursAt(data[1], args[p].line_ending, 0)
        /\ OccursAt(data[1], args[p].line_ending, 1)

\* C27: splitting a stream in chunks of any size gives what splitting the
\* same bytes in memory gives: the same error, or the same segments in the
\* same order.
C27_StreamEqualsBytes ==
    \A p \in Procs :
        pc[p] = "split_done" =>
            /\ out[p].stream_err = out[p].err
            /\ out[p].stream = out[p].segs

\* C27 witness: a stream was split whose two-byte delimiter begins on the
\* last byte of a chunk and ends on the first byte of the next, and whose
\* line holds a comment.
C27_Witness ==
    \E p \in Procs :
        /\ pc[p] = "split_done" /\ ~out[p].err
        /\ Len(args[p].line_ending) = 2
        /\ \E i \in 1..MaxInput :
              /\ OccursAt(data[1], args[p].line_ending, i)
              /\ i + 1 = out[p].chunk
        /\ args[p].comment_marker # None
        /\ contains(data[1], args[p].comment_marker)
        /\ out[p].stream = out[p].segs /\ Len(out[p].stream) > 0

(***************************************************************************)
(* find_bytes_offset_in_stream called on its own.                          *)
(***************************************************************************)
\* 'a', 'b'
ScanAlphabet == {97, 98}

\* stream contents of up to MaxInput + 2 bytes, targets of 1..MaxInput
ScanInputs == UNION {[1..k -> ScanAlphabet] : k \in 0..(MaxInput + 2)}

ScanTargets == UNION {[1..k -> ScanAlphabet] : k \in 1..MaxInput}

\* the chunk sizes that differ in effect on such streams
ScanChunkSizes == 1..(MaxInput + 3)

\* One process that has the target open, seeked to any offset, and calls
\* find_bytes_offset_in_stream with any target.
InitScan ==
    /\ pc = [p \in Procs |-> IF p = 1 THEN "scan" ELSE "off"]
    /\ hist = [p \in Procs |-> Hist0]
    /\ todo = [p \in Procs |-> 0]
    /\ out = [p \in Procs |-> Out0]
    /\ \E c \in ScanInputs, t \in ScanTargets, rpos \in 0..(MaxInput + 2) :
        /\ rpos <= Len(c)
        /\ InitFiles(TRUE, TRUE, c)
        /\ args = [p \in Procs |->
                     MkArgs("t", t, FALSE, FALSE, FALSE, FALSE, None, None,
                            FALSE, FALSE)]
        /\ loc = [p \in Procs |->
                    IF p = 1 THEN [Locals0 EXCEPT !.fh = 1, !.pos = rpos]
                    ELSE Locals0]
    /\ faults = MaxFaults

\* find_bytes_offset_in_stream(stream=fh, target=..., chunk_size=chunk)
FindOffset(p) ==
    /\ pc[p] = "scan"
    /\ \E chunk \in ScanChunkSizes :
        out' = [out EXCEPT
                  ![p].chunk = chunk,
                  ![p].offset =
                     find_bytes_offset_in_stream(data[loc[p].fh], loc[p].pos,
                         args[p].bytes_payload, chunk)]
    /\ pc' = [pc EXCEPT ![p] = "scan_done"]
    /\ UNCHANGED <<fsvars, lockdir, args, loc, todo, hist, faults>>

NextScan == \E p \in Procs : FindOffset(p)

SpecScan == InitScan /\ [][NextScan]_vars

\* the bytes of the stream from p's position at entry on
Unread(p) == SliceFrom(data[loc[p].fh], loc[p].pos)

\* C28: find_bytes_offset_in_stream returns None exactly when the target
\* does not occur in the stream from the position at entry on, and
\* otherwise the offset of its first occurrence counted from that
\* position, whatever the chunk size.
C28_Scanner ==
    \A p \in Procs :
        pc[p] = "scan_done" =>
            LET t == args[p].bytes_payload
                hits == {i \in 0..Len(Unread(p)) : OccursAt(Unread(p), t, i)}
            IN  /\ out[p].offset = -1 <=> hits = {}
                /\ out[p].offset # -1 =>
                      /\ out[p].offset \in hits
                      /\ \A i \in hits : out[p].offset <= i

\* C28 witness: a target of MaxInput bytes was found with a chunk size
\* smaller than the target, from a position other than 0, at an offset
\* where it straddles two reads.
C28_Witness ==
    \E p \in Procs :
        /\ pc[p] = "scan_done" /\ loc[p].pos > 0
        /\ Len(args[p].bytes_payload) = MaxInput
        /\ out[p].chunk < MaxInput /\ out[p].chunk > 1
        /\ out[p].offset > 0
        /\ out[p].offset + loc[p].pos + Len(args[p].bytes_payload)
              = Len(data[1])

\* byte string t occurs somewhere in byte string s
OccursIn(s, t) == \E i \in 0..Len(s) : OccursAt(s, t, i)

\* C29: split raises the configuration error and yields nothing when the
\* delimiter is empty, when the comment marker is empty, when it equals
\* the delimiter, or when the delimiter occurs inside it; it raises in no
\* other case, so a comment marker that occurs inside the delimiter is
\* accepted.
C29_ConfigurationErrors ==
    \A p \in Procs :
        pc[p] \in {"split_stream", "split_done"} =>
            LET d == args[p].line_ending
                m == args[p].comment_marker
                bad == \/ d = <<>>
                       \/ /\ m # None
                          /\ (m = <<>> \/ m = d \/ OccursIn(m, d))
            IN  /\ out[p].err <=> bad
                /\ out[p].err => out[p].segs = <<>>
                /\ pc[p] = "split_done" =>
                      /\ out[p].stream_err <=> bad
                      /\ out[p].stream_err => out[p].stream = <<>>
                /\ (m # None /\ m # <<>> /\ m # d /\ d # <<>>
                      /\ OccursIn(d, m) /\ ~OccursIn(m, d)) => ~out[p].err

\* C29 witness: a split of MaxInput bytes that hold the delimiter was
\* refused because the delimiter occurs inside a longer comment marker.
C29_Witness ==
    \E p \in Procs :
        /\ pc[p] = "split_done" /\ out[p].err /\ out[p].stream_err
        /\ args[p].comment_marker # None
        /\ Len(args[p].comment_marker) > Len(args[p].line_ending)
        /\ args[p].line_ending # <<>>
        /\ OccursIn(args[p].comment_marker, args[p].line_ending)
        /\ Len(data[1]) = MaxInput /\ OccursIn(data[1], args[p].line_ending)

\* the raw lines of data: each ends after the first delimiter found, the
\* last one may have none
RECURSIVE RawLines(_, _)
RawLines(bytes, delim) ==
    IF bytes = <<>> THEN <<>>
    ELSE IF ~OccursIn(bytes, delim) THEN <<bytes>>
    ELSE LET i == CHOOSE k \in 0..Len(bytes) :
                     /\ OccursAt(bytes, delim, k)
                     /\ \A j \in 0..(k - 1) : ~OccursAt(bytes, delim, j)
         IN  <<Slice(bytes, 0, i + Len(delim))>>
                \o RawLines(SliceFrom(bytes, i + Len(delim)), delim)

\* the content of a segment: the segment without the delimiter it ends with
SegmentContent(seg, delim) ==
    IF endswith(seg, delim) THEN Slice(seg, 0, Len(seg) - Len(delim))
    ELSE seg

NoLeadingSpace(s) == s = <<>> \/ ~IsSpace(s[1])
NoTrailingSpace(s) == s = <<>> \/ ~IsSpace(s[Len(s)])

\* the segments p's split of the bytes yielded
Segments(p) == {out[p].segs[k] : k \in 1..Len(out[p].segs)}

\* p has split with a valid delimiter and no comment marker
TrimmingSplit(p) ==
    /\ pc[p] \in {"split_stream", "split_done"}
    /\ ~out[p].err /\ args[p].comment_marker = None

\* C30: with strip_leading no segment's content begins with whitespace;
\* with strip_trailing no segment's content ends with whitespace; and when
\* every raw line ends with the delimiter, so does every segment yielded
\* after trimming.
C30_Trimming ==
    \A p \in Procs :
        TrimmingSplit(p) =>
            LET d == args[p].line_ending
                raw == RawLines(data[1], d)
            IN  /\ args[p].ignore_leading_whitespace =>
                      \A s \in Segments(p) :
                          NoLeadingSpace(SegmentContent(s, d))
                /\ args[p].ignore_trailing_whitespace =>
                      \A s \in Segments(p) :
                          NoTrailingSpace(SegmentContent(s, d))
                /\ (\A k \in 1..Len(raw) : endswith(raw[k], d)) =>
                      \A s \in Segments(p) : endswith(s, d)

\* every byte of s is ASCII whitespace
WhitespaceOnly(s) == \A k \in 1..Len(s) : IsSpace(s[k])

\* what a raw line holds before its first comment marker, or before its
\* delimiter when it holds no marker
BeforeMarker(line, delim, cm) ==
    IF cm # None /\ OccursIn(line, cm)
    THEN Slice(line, 0, CHOOSE i \in 0..Len(line) :
                            /\ OccursAt(line, cm, i)
                            /\ \A j \in 0..(i - 1) : ~OccursAt(line, cm, j))
    ELSE SegmentContent(line, delim)

\* stripping leading whitespace (and the comment, if any) leaves nothing
\* of the raw line's content
Emptied(line, delim, cm) == WhitespaceOnly(BeforeMarker(line, delim, cm))

\* p has split valid input with some stripping requested; with
\* strip_leading and without strip_trailing
StrippingSplit(p) ==
    /\ pc[p] \in {"split_stream", "split_done"} /\ ~out[p].err
    /\ \/ args[p].ignore_leading_whitespace
       \/ args[p].ignore_trailing_whitespace

LeadingOnlySplit(p) ==
    /\ StrippingSplit(p)
    /\ args[p].ignore_leading_whitespace
    /\ ~args[p].ignore_trailing_whitespace

\* C31 as stated: when stripping was requested, as many segments are
\* yielded as there are raw lines whose content is not emptied, and none
\* of them is empty or the delimiter alone.
C31_AsStated ==
    \A p \in Procs :
        StrippingSplit(p) =>
            LET d == args[p].line_ending
                raw == RawLines(data[1], d)
            IN  /\ \A s \in Segments(p) : s # <<>> /\ s # d
                /\ Len(out[p].segs) =
                      Cardinality({k \in 1..Len(raw) :
                          ~Emptied(raw[k], d, args[p].comment_marker)})

\* C31: with strip_leading and without strip_trailing, every
\* delimiter-terminated raw line yields a segment, the delimiter alone
\* when its content is emptied; only a final raw line without delimiter
\* is dropped, and it is dropped exactly when its content is emptied.
C31_EmptiedSegments ==
    \A p \in Procs :
        LeadingOnlySplit(p) =>
            LET d == args[p].line_ending
                m == args[p].comment_marker
                raw == RawLines(data[1], d)
            IN  \A k \in 1..Len(raw) :
                    IF endswith(raw[k], d)
                    THEN /\ k <= Len(out[p].segs)
                         /\ Emptied(raw[k], d, m) => out[p].segs[k] = d
                    ELSE (k > Len(out[p].segs)) <=> Emptied(raw[k], d, m)

\* C31 witness: of two raw lines emptied by stripping the comment and the
\* leading whitespace, the first, delimiter-terminated, was yielded as the
\* delimiter alone, the second, unterminated, was dropped.
C31_Witness ==
    \E p \in Procs :
        /\ LeadingOnlySplit(p) /\ pc[p] = "split_done"
        /\ args[p].comment_marker # None
        /\ LET d == args[p].line_ending
               raw == RawLines(data[1], d)
           IN  /\ Len(raw) = 2 /\ Len(raw[1]) > Len(d)
               /\ endswith(raw[1], d) /\ ~endswith(raw[2], d)
               /\ Emptied(raw[1], d, args[p].comment_marker)
               /\ Emptied(raw[2], d, args[p].comment_marker)
               /\ out[p].segs = <<d>>

\* what stripping leaves of a final raw line that carries no delimiter:
\* the part before the first comment marker, trimmed as requested
FinalContent(line, cm, sl, st) ==
    LET c0 == IF cm # None /\ OccursIn(line, cm)
              THEN BeforeMarker(line, <<>>, cm) ELSE line
        c1 == IF sl THEN lstrip(c0) ELSE c0
    IN  IF st THEN rstrip(c1) ELSE c1

\* p has split valid input whose final raw line carries no delimiter
UnterminatedSplit(p) ==
    /\ pc[p] \in {"split_stream", "split_done"} /\ ~out[p].err
    /\ LET raw == RawLines(data[1], args[p].line_ending)
       IN  Len(raw) > 0 /\ ~endswith(raw[Len(raw)], args[p].line_ending)

\* C32: when the input's final raw line carries no delimiter, then, under
\* every delimiter and stripping combination, either stripping leaves
\* nothing of it and fewer segments are yielded than there are raw lines,
\* or the last segment yielded does not end with the delimiter.
C32_FinalChunk ==
    \A p \in Procs :
        UnterminatedSplit(p) =>
            LET d == args[p].line_ending
                raw == RawLines(data[1], d)
                n == Len(out[p].segs)
            IN  IF FinalContent(raw[Len(raw)], args[p].comment_marker,
                                args[p].ignore_leading_whitespace,
                                args[p].ignore_trailing_whitespace) = <<>>
                THEN n < Len(raw)
                ELSE n >= 1 /\ ~endswith(out[p].segs[n], d)

\* the k-th raw line ends with the delimiter, holds the comment marker,
\* and holds nothing but whitespace before the marker
CommentOnlyLine(line, delim, cm) ==
    /\ endswith(line, delim)
    /\ cm # None /\ OccursIn(line, cm)
    /\ WhitespaceOnly(BeforeMarker(line, delim, cm))

\* C33: with a comment marker and strip_leading set and strip_trailing
\* not set, every delimiter-terminated raw line that holds only whitespace
\* before its comment marker yields exactly the delimiter, from bytes and
\* from a stream alike; an input that is one such line yields one segment,
\* the delimiter.
C33_CommentOnlyYieldsDelimiter ==
    \A p \in Procs :
        (LeadingOnlySplit(p) /\ args[p].comment_marker # None) =>
            LET d == args[p].line_ending
                m == args[p].comment_marker
                raw == RawLines(data[1], d)
                yielded(segs) ==
                    /\ \A k \in 1..Len(raw) :
                          CommentOnlyLine(raw[k], d, m) =>
                              k <= Len(segs) /\ segs[k] = d
                    /\ (Len(raw) = 1 /\ CommentOnlyLine(raw[1], d, m)) =>
                          segs = <<d>>
            IN  /\ yielded(out[p].segs)
                /\ (pc[p] = "split_done" /\ ~out[p].stream_err) =>
                      yielded(out[p].stream)

\* C33 witness: a space, '#' and a newline, split on the newline with the
\* comment marker '#' and strip_leading, yielded one segment, the newline.
C33_Witness ==
    \E p \in Procs :
        /\ LeadingOnlySplit(p) /\ pc[p] = "split_done"
        /\ data[1] = <<32, 35, 10>>
        /\ args[p].line_ending = <<10>> /\ args[p].comment_marker = <<35>>
        /\ out[p].segs = << <<10>> >> /\ out[p].stream = << <<10>> >>

\* no segment of segs is empty, and segs holds no more segments than the
\* input has raw lines
NoEmptySegment(segs, bytes, delim) ==
    /\ \A k \in 1..Len(segs) : Len(segs[k]) >= 1
    /\ Len(segs) <= Len(RawLines(bytes, delim))
    /\ bytes = <<>> => segs = <<>>

\* C34: under every accepted combination of delimiter, comment marker and
\* stripping options, from bytes and from a stream, every segment split
\* yields has at least one byte, an empty input yields no segment, and no
\* more segments are yielded than the input has raw lines, so an input
\* that ends on a delimiter yields no trailing segment.
C34_NoEmptySegment ==
    \A p \in Procs :
        /\ (pc[p] \in {"split_stream", "split_done"} /\ ~out[p].err) =>
              NoEmptySegment(out[p].segs, data[1], args[p].line_ending)
        /\ (pc[p] = "split_done" /\ ~out[p].stream_err) =>
              NoEmptySegment(out[p].stream, data[1], args[p].line_ending)

\* C34 witness: an input of one line and its delimiter, whose content is
\* whitespace that both strips remove, was split without a comment marker
\* into a single segment, the delimiter.
C34_Witness ==
    \E p \in Procs :
        /\ pc[p] = "split_done" /\ ~out[p].err
        /\ args[p].comment_marker = None
        /\ args[p].ignore_leading_whitespace
        /\ args[p].ignore_trailing_whitespace
        /\ args[p].line_ending = <<35>>
        /\ data[1] = <<32, 32, 35>>
        /\ out[p].segs = << <<35>> >> /\ out[p].stream = << <<35>> >>

\* p has split valid input with a comment marker and no stripping
CommentOnlySplit(p) ==
    /\ pc[p] \in {"split_stream", "split_done"} /\ ~out[p].err
    /\ args[p].comment_marker # None
    /\ ~args[p].ignore_leading_whitespace
    /\ ~args[p].ignore_trailing_whitespace

\* what comment stripping alone is to yield for one raw line: zero or one
\* segments
Uncommented(line, delim, cm) ==
    IF ~OccursIn(line, cm) THEN <<line>>
    ELSE IF endswith(line, delim)
         THEN <<BeforeMarker(line, delim, cm) \o delim>>
         ELSE IF BeforeMarker(line, delim, cm) = <<>> THEN <<>>
              ELSE <<BeforeMarker(line, delim, cm)>>

RECURSIVE UncommentedLines(_, _, _)
UncommentedLines(raw, delim, cm) ==
    IF raw = <<>> THEN <<>>
    ELSE Uncommented(Head(raw), delim, cm)
            \o UncommentedLines(Tail(raw), delim, cm)

\* C38: with a comment marker and no whitespace stripping, split yields,
\* from bytes and from a stream, for each raw line in order: the line
\* unchanged when it does not hold the marker; what precedes the first
\* marker followed by the delimiter when it holds the marker and ends with
\* the delimiter (so a comment-only line is yielded as the delimiter);
\* what precedes the first marker when it is the final line without
\* delimiter, and nothing when that is empty.
C38_CommentStripping ==
    \A p \in Procs :
        CommentOnlySplit(p) =>
            LET d == args[p].line_ending
                expected == UncommentedLines(RawLines(data[1], d), d,
                                             args[p].comment_marker)
            IN  /\ out[p].segs = expected
                /\ (pc[p] = "split_done" /\ ~out[p].stream_err) =>
                      out[p].stream = expected

\* C38 witness: "#\n#" split on the newline with the marker '#' and no
\* stripping yielded the newline alone: the comment-only first line
\* collapsed to its delimiter, the comment-only final line was dropped.
C38_Witness ==
    \E p \in Procs :
        /\ CommentOnlySplit(p) /\ pc[p] = "split_done"
        /\ data[1] = <<35, 10, 35>>
        /\ args[p].line_ending = <<10>> /\ args[p].comment_marker = <<35>>
        /\ out[p].segs = << <<10>> >> /\ out[p].stream = << <<10>> >>

\* p is inside ensure_bytes_present
InEnsure(p) == Appending(p) /\ ~args[p].direct

\* C35: a caller inside ensure_bytes_present that holds the advisory lock
\* on the target holds the named lock of the target's path; it holds the
\* named lock whenever it is at the step that takes the advisory lock,
\* and it no longer holds the advisory lock whenever it is at the step
\* that gives up the named lock; it has never taken the advisory lock
\* more often than the named lock, nor released the named lock more
\* often than it took it.
C35_LockNesting ==
    \A p \in Procs :
        InEnsure(p) =>
            /\ HoldsAdvisory(p) => HoldsNamed(p)
            /\ pc[p] = "lfh_flock" => HoldsNamed(p)
            /\ pc[p] = "close_lock" => ~HoldsAdvisory(p)
            /\ hist[p].adv_acq <= hist[p].named_acq
            /\ hist[p].named_rel <= hist[p].named_acq

\* C35 witness: a caller that took both locks has released the advisory
\* lock and still holds the named lock, for which another caller waits.
C35_Witness ==
    \E p, q \in Procs :
        /\ p # q /\ InEnsure(p) /\ pc[p] = "close_lock"
        /\ hist[p].adv_acq >= 1 /\ hist[p].adv_rel >= 1
        /\ ~HoldsAdvisory(p) /\ HoldsNamed(p)
        /\ pc[q] = "lock_flock"
        /\ get_lockfile_path(args[q].path) = get_lockfile_path(args[p].path)

(***************************************************************************)
(* Callers on the same and on different paths.                             *)
(***************************************************************************)
\* How one caller reaches a file: ways 1 to 3 as above, 4 by the second
\* name "h".
LinkWayPath(w) == IF w = 4 THEN "h" ELSE WayPath(w)

\* The second name at the start: 0 absent, 1 a hard link to the target,
\* 2 another file, empty like the target.
LinkKinds == 0..2

InitLinkFiles(has_parent, has_target, link) ==
    /\ parent = has_parent
    /\ dent = [n \in Names |->
                 IF n = "t" THEN (IF has_target THEN 1 ELSE 0) ELSE link]
    /\ data = [i \in 1..(IF link = 2 THEN 2 ELSE IF has_target THEN 1 ELSE 0)
                 |-> <<>>]
    /\ flk = [i \in DOMAIN data |-> 0]
    /\ lockfiles = {}
    /\ nlk = [l \in LockFiles |-> 0]
    /\ lockdir = "alice"

\* NProcs processes, each making one binary-mode unique append of "a\n"
\* (the replacing caller of "ba\n"), with no failing system call and no
\* signal, on every target state of ConcFiles, by the target's name, the
\* symbolic link, the second name, or the target's name with unlink_first.
\* Every process that can take a step takes it eventually: flock(LOCK_EX)
\* returns once the lock is free and stays free, which it does when the
\* other callers, each making one call, have ended.
InitPaths ==
    /\ InitProcs(Procs, 1)
    /\ faults = MaxFaults
    /\ \E f \in ConcFiles, link \in LinkKinds, w \in [Procs -> 1..4] :
        /\ link > 0 => f[1] /\ f[2]
        /\ \A p, q \in Procs : p <= q => w[p] <= w[q]
        /\ \A p, q \in Procs : w[p] = 2 /\ w[q] = 2 => p = q
        /\ InitLinkFiles(f[1], f[2], link)
        /\ args = [p \in Procs |->
                     MkArgs(LinkWayPath(w[p]), WayPayload(w[p], <<97, 10>>),
                            WayUnlink(w[p]), TRUE, f[3], f[4], None, None,
                            FALSE, FALSE)]

SpecPaths ==
    InitPaths /\ [][NextSeq]_vars /\ \A p \in Procs : WF_vars(Step(p))

\* p waits for a lock another process holds
WaitsNamed(p) == pc[p] = "lock_flock" /\ ~named_lock_free(p)
WaitsAdvisory(p) == pc[p] = "lfh_flock" /\ ~advisory_lock_free(p)

\* C36: with concurrent blocking appends on the same and on different
\* paths, some caller can take a step as long as a call has not ended (no
\* deadlock); a caller that waits for the named or for the advisory lock
\* does not move while another holds it, and no lock passes to a caller
\* while another holds it; and, every caller that can move moving
\* eventually, every call ends, having acquired the named lock (and, when
\* it returns a result, the advisory lock) and having released every lock
\* it acquired; a caller past a lock's acquisition holds that lock.
C36_Progress ==
    /\ []((\E p \in Procs : pc[p] # "done") =>
             \E q \in Procs : ENABLED Step(q))
    /\ [][\A p \in Procs :
            /\ (WaitsNamed(p) \/ WaitsAdvisory(p)) =>
                  (pc'[p] = pc[p] /\ loc'[p] = loc[p])
            /\ \A l \in LockFiles :
                  (nlk'[l] = p /\ nlk[l] # p) => nlk[l] = 0
            /\ \A i \in DOMAIN flk :
                  (flk'[i] = p /\ flk[i] # p) => flk[i] = 0]_vars
    /\ [](\A p \in Procs :
            /\ pc[p] \in {"lfh_create", "lfh_open", "lfh_flock"} =>
                  HoldsNamed(p)
            /\ pc[p] \in {"check", "flush", "fsync"} => HoldsAdvisory(p)
            /\ (pc[p] = "done" /\ ~args[p].unlink_first) =>
                  /\ hist[p].named_acq >= 1
                  /\ hist[p].named_rel = hist[p].named_acq
                  /\ hist[p].adv_rel = hist[p].adv_acq
                  /\ loc[p].exc = "" => hist[p].adv_acq >= 1)
    /\ <>[](\A p \in Procs : pc[p] = "done")

\* C36 witness: a caller waits for the named lock that another caller,
\* inside the locked section, holds.
C36_Witness ==
    \E p, q \in Procs :
        /\ p # q /\ WaitsNamed(p)
        /\ nlk[get_lockfile_path(args[p].path)] = q
        /\ InSection(q)

\* p issues path.parent.mkdir(parents=True, exist_ok=True)
MkdirStep(p) ==
    /\ pc[p] \in {"ul_mkdir", "ebp_mkdir", "retry_mkdir"}
    /\ pc'[p] \notin {pc[p], "killed"}

\* an ensure_bytes_present of p with create_if_missing has failed with
\* FileNotFoundError: p is in the handler of the second call's error, or
\* in the third call
CreateAttemptFailed(p) ==
    \/ pc[p] = "retry_mkdir"
    \/ pc[p] = "ebp_mkdir" /\ loc[p].attempt = 3

\* C37: a step that issues the creation of the target's parent directory
\* is taken by a call with make_parents, while the parent directory is
\* missing, and after an attempt with create has failed for it.
C37_MkdirOnlyAfterFailedCreate ==
    [][\A p \in Procs :
          MkdirStep(p) =>
              /\ args[p].make_parents
              /\ ~parent
              /\ CreateAttemptFailed(p)]_vars

(***************************************************************************)
(* Appenders on two hard links of one file.                                *)
(***************************************************************************)
\* NProcs processes, each making one unique append of "a\n", binary-mode
\* or line-mode, to a file that has two names, by the target's name, by
\* the symbolic link to it, or by its second name; with faults and signals.
InitLink ==
    /\ InitProcs(Procs, 1)
    /\ faults = 0
    /\ InitLinkFiles(TRUE, TRUE, 1)
    /\ \E d \in {None, <<10>>}, create \in BOOLEAN, w \in [Procs -> {1, 2, 4}] :
        /\ \A p, q \in Procs : p <= q => w[p] <= w[q]
        /\ \E p \in Procs : w[p] = 4
        /\ args = [p \in Procs |->
                     MkArgs(LinkWayPath(w[p]), <<97, 10>>, FALSE, TRUE,
                            create, FALSE, d, None, FALSE, FALSE)]

\* the steps of an append to a target that exists
LinkStep(p) ==
    \/ Call(p)
    \/ LockOpen(p) \/ LockFlock(p)
    \/ LfhOpen(p) \/ LfhFlock(p)
    \/ Check(p) \/ Flush(p) \/ Fsync(p)
    \/ Unlock(p) \/ CloseFh(p) \/ CloseLock(p)

NextLink == \E p \in Procs : LinkStep(p) \/ Kill(p)

SpecLink == InitLink /\ [][NextLink]_vars

\* p and q append to the same file by names with different canonical
\* paths, so under different named locks
ThroughHardLinks(p, q) ==
    /\ p # q /\ Appending(p) /\ Appending(q)
    /\ resolve(args[p].path) # resolve(args[q].path)
    /\ dent[resolve(args[p].path)] = dent[resolve(args[q].path)]
    /\ dent[resolve(args[p].path)] # 0

\* C39: two appenders that reach the same file through hard links, under
\* different named locks, are never both inside the dedup-check-then-write
\* section, and each is inside it only while holding the advisory lock on
\* the file.
C39_HardLinkExclusion ==
    \A p, q \in Procs :
        ThroughHardLinks(p, q) =>
            /\ ~(InSection(p) /\ InSection(q))
            /\ InSection(p) => HoldsAdvisory(p)

(***************************************************************************)
(* ensure_line_in_config_file.                                             *)
(***************************************************************************)
\* str.encode("utf8", errors="strict") of a string given by its code
\* points: one byte below 128, two bytes below 2048.
RECURSIVE utf8(_)
utf8(s) ==
    IF s = <<>> THEN <<>>
    ELSE (IF Head(s) < 128 THEN <<Head(s)>>
          ELSE <<192 + (Head(s) \div 64), 128 + (Head(s) % 64)>>)
         \o utf8(Tail(s))

\* ensure_line_in_config_file: the call of append_bytes_to_file it makes
\* (filetool.py:819-839)
ensure_line_in_config_file(path, line, comment_marker, ignore_leading_whitespace) ==
    MkArgs(path, utf8(line), FALSE, TRUE, TRUE, TRUE, <<10>>,
           utf8(comment_marker), ignore_leading_whitespace, TRUE)

\* The lines: non-empty strings without a newline, of letters, a space, a
\* '#' and a two-byte character.  The comment markers.
ConfigChars == {97, 32, 35, 233}
ConfigLines == UNION {[1..k -> ConfigChars] : k \in 1..MaxContent}
ConfigMarkers == {<<35>>, <<59>>, <<47, 47>>}

\* One process calling ensure_line_in_config_file twice with the same
\* arguments, no fault and no signal: the target missing, with or without
\* its parent directory, or holding any content of up to MaxContent bytes.
InitConfig ==
    /\ InitProcs({1}, 2)
    /\ faults = MaxFaults
    /\ \E line \in ConfigLines, m \in ConfigMarkers, lead \in BOOLEAN :
        /\ args = [p \in Procs |->
                     ensure_line_in_config_file("t", line, m, lead)]
        /\ \/ \E has_parent \in BOOLEAN : InitFiles(has_parent, FALSE, <<>>)
           \/ \E c \in Contents : InitFiles(TRUE, TRUE, c)

\* the steps of an append that creates what is missing
ConfigStep(p) ==
    \/ Call(p)
    \/ EbpMkdir(p) \/ LockOpen(p) \/ LockFlock(p)
    \/ LfhCreate(p) \/ LfhOpen(p) \/ LfhFlock(p)
    \/ Check(p) \/ Flush(p) \/ Fsync(p)
    \/ Unlock(p) \/ CloseFh(p) \/ CloseLock(p)

NextConfig == \E p \in Procs : ConfigStep(p)

SpecConfig == InitConfig /\ [][NextConfig]_vars

\* C40: when the second of two calls of ensure_line_in_config_file with
\* the same arguments has returned, the file holds what the first call
\* left, and the second call has written nothing.
C40_ConfigLineIdempotent ==
    \A p \in Procs :
        (pc[p] = "done" /\ loc[p].exc = "" /\ hist[p].prev # None) =>
            /\ Content(args[p].path) = hist[p].prev
            /\ loc[p].ret = 0

=============================================================================
